---- MODULE Spec2Model ----
(***************************************************************************)
(* Repository Intelligence Tool: the analysis stage (analyze_repos.py).     *)
(*                                                                         *)
(* Strings are sequences of one-character strings, so that lower(),        *)
(* substring containment and the regular expressions of the source are     *)
(* computed character by character.  Dictionaries are functions whose      *)
(* DOMAIN is the set of keys present.                                      *)
(***************************************************************************)
EXTENDS Integers, Sequences, FiniteSets, TLC

VARIABLES
    repo_data,    \* the raw repository record handed to the function under analysis
    config,       \* config['analysis']['tech_stack']['keywords']
    pc,           \* position of the running stage
    maturity,     \* value returned by estimate_project_maturity
    branch,       \* which assignment of the if/elif chain produced maturity
    tech_stack,   \* list returned by detect_tech_stack
    raw,          \* data/raw: the listed repositories, each with its repo_data.json
    cursor,       \* analyze_repositories: how many listed repositories were visited
    all_repos,    \* analyze_repositories: the in-memory list of analysed records
    processed,    \* data/processed: repositories.csv and repositories.json
    scan,         \* one call of detect_services: keywords, files, flags, position
    xrepo,        \* one call of extract_repo_data: data source, record, position
    summ,         \* one call of a summary function: text, result
    top,          \* one call of get_top_technologies: records, n, result
    run,          \* one run of a pipeline stage: configuration file, loops, effects
    pipe,         \* extract runs followed by analyze runs over one disk
    site,         \* one call of generate_portfolio: records, pages written
    shots,        \* one call of collect_screenshots: dataset file, captures
    lrepos,       \* one call of list_repositories: listing, filters, result
    finder        \* one call of find_config_files: repository tree, entries

vars == <<repo_data, config, pc, maturity, branch, tech_stack, raw, cursor, all_repos,
          processed, scan, xrepo, summ, top, run, pipe, site, shots, lrepos, finder>>

\* the variables of the other components, and their value while the component
\* is not running
Idle == [pc |-> "idle"]
laterVars == <<pipe, site, shots, lrepos, finder>>
LaterIdle ==
    pipe = Idle /\ site = Idle /\ shots = Idle /\ lrepos = Idle /\ finder = Idle
otherVars == <<scan, xrepo, summ, top, run, laterVars>>
OthersIdle ==
    scan = Idle /\ xrepo = Idle /\ summ = Idle /\ top = Idle /\ run = Idle /\ LaterIdle

\* the state of analyze_repositories, untouched by a call of one function alone
analyzeVars == <<raw, cursor, all_repos, processed>>

-----------------------------------------------------------------------------
(* Python built-ins used by the source, on character sequences.            *)

UpperChars == <<"A","B","C","D","E","F","G","H","I","J","K","L","M","N","O","P","Q","R","S","T","U","V","W","X","Y","Z">>
LowerChars == <<"a","b","c","d","e","f","g","h","i","j","k","l","m","n","o","p","q","r","s","t","u","v","w","x","y","z">>
DigitChars == {"0","1","2","3","4","5","6","7","8","9"}

\* str.lower() on one character
UpperToLower ==
    [c \in {UpperChars[i] : i \in 1..Len(UpperChars)} |->
        LowerChars[CHOOSE i \in 1..Len(UpperChars) : UpperChars[i] = c]]

LowerChar(c) == IF c \in DOMAIN UpperToLower THEN UpperToLower[c] ELSE c

\* str.lower()
Lower(s) == [i \in 1..Len(s) |-> LowerChar(s[i])]

\* sub occurs in s at offset i (0-based)
OccursAt(sub, s, i) ==
    /\ i + Len(sub) <= Len(s)
    /\ \A j \in 1..Len(sub) : s[i + j] = sub[j]

\* Python's  sub in s  on strings
Contains(sub, s) == \E i \in 0..Len(s) : OccursAt(sub, s, i)

\* Python's  x in list
InList(x, list) == \E i \in 1..Len(list) : list[i] = x

\* dict.get(key, default)
Get(d, key, default) == IF key \in DOMAIN d THEN d[key] ELSE default

Range(list) == {list[i] : i \in 1..Len(list)}

-----------------------------------------------------------------------------
(* String literals of estimate_project_maturity.                           *)

S_deploy == <<"d","e","p","l","o","y">>
S_production == <<"p","r","o","d","u","c","t","i","o","n">>
S_kubernetes == <<"k","u","b","e","r","n","e","t","e","s">>
S_k8s == <<"k","8","s">>
S_cloudflare == <<"c","l","o","u","d","f","l","a","r","e">>
S_test == <<"t","e","s","t">>
S_jest == <<"j","e","s","t">>
S_cypress == <<"c","y","p","r","e","s","s">>
S_spec == <<"s","p","e","c">>
S_github_workflows == <<".","g","i","t","h","u","b","/","w","o","r","k","f","l","o","w","s">>
S_gitlab_ci == <<"g","i","t","l","a","b","-","c","i">>
S_jenkins == <<"j","e","n","k","i","n","s">>
S_circleci == <<"c","i","r","c","l","e","c","i">>
S_travis == <<"t","r","a","v","i","s">>
S_contributing == <<"c","o","n","t","r","i","b","u","t","i","n","g">>
S_changelog == <<"c","h","a","n","g","e","l","o","g">>
S_CONTRIBUTING_md == <<"C","O","N","T","R","I","B","U","T","I","N","G",".","m","d">>
S_CHANGELOG_md == <<"C","H","A","N","G","E","L","O","G",".","m","d">>
S_archived == <<"a","r","c","h","i","v","e","d">>
S_sentry == <<"s","e","n","t","r","y">>
S_snyk == <<"s","n","y","k">>
S_version_sp == <<"v","e","r","s","i","o","n"," ">>

-----------------------------------------------------------------------------
(* estimate_project_maturity                                               *)

\* config_file_paths = [f.get('path', '').lower() for f in config_files]
config_file_paths(rd) ==
    LET config_files == Get(rd, "config_files", <<>>)
    IN  [i \in 1..Len(config_files) |-> Lower(Get(config_files[i], "path", <<>>))]

IsDeployPath(f) ==
    \/ Contains(S_deploy, f) \/ Contains(S_production, f)
    \/ Contains(S_kubernetes, f) \/ Contains(S_k8s, f) \/ Contains(S_cloudflare, f)

IsTestPath(f) ==
    \/ Contains(S_test, f) \/ Contains(S_jest, f)
    \/ Contains(S_cypress, f) \/ Contains(S_spec, f)

IsCicdPath(f) ==
    \/ Contains(S_github_workflows, f) \/ Contains(S_gitlab_ci, f)
    \/ Contains(S_jenkins, f) \/ Contains(S_circleci, f) \/ Contains(S_travis, f)

deploy_files(rd) == SelectSeq(config_file_paths(rd), IsDeployPath)
test_files(rd) == SelectSeq(config_file_paths(rd), IsTestPath)
cicd_files(rd) == SelectSeq(config_file_paths(rd), IsCicdPath)

\* readme = repo_data.get('readme', '').lower()
readme_lower(rd) == Lower(Get(rd, "readme", <<>>))

\* 'contributing' in readme or 'CONTRIBUTING.md' in config_file_paths
has_contributing(rd) ==
    Contains(S_contributing, readme_lower(rd)) \/ InList(S_CONTRIBUTING_md, config_file_paths(rd))

\* 'changelog' in readme or 'CHANGELOG.md' in config_file_paths
has_changelog(rd) ==
    Contains(S_changelog, readme_lower(rd)) \/ InList(S_CHANGELOG_md, config_file_paths(rd))

\* re.search(r'version \d+\.\d+', s): "version ", k >= 1 digits, ".", one digit
SearchVersion(s) ==
    \E i \in 0..Len(s) :
        /\ OccursAt(S_version_sp, s, i)
        /\ \E k \in 1..Len(s) :
              LET d == i + Len(S_version_sp)
              IN  /\ d + k + 2 <= Len(s)
                  /\ \A j \in 1..k : s[d + j] \in DigitChars
                  /\ s[d + k + 1] = "."
                  /\ s[d + k + 2] \in DigitChars

has_version(rd) == SearchVersion(readme_lower(rd))

\* services.get('sentry', False), services.get('snyk', False)
has_monitoring(rd) == Get(Get(rd, "services", <<>>), S_sentry, FALSE)
has_security(rd) == Get(Get(rd, "services", <<>>), S_snyk, FALSE)

\* line 156: if deploy_files and test_files and cicd_files and has_version
RuleOuter_NoDeploy(deploy, test, cicd, version) ==
    test # <<>> /\ cicd # <<>> /\ version
RuleOuter(deploy, test, cicd, version) ==
    deploy # <<>> /\ test # <<>> /\ cicd # <<>> /\ version

\* line 157: if has_contributing and has_changelog and has_monitoring and has_security
RuleProductionReady_NoSecurity(contributing, changelog, monitoring, security) ==
    contributing /\ changelog /\ monitoring
RuleProductionReady(contributing, changelog, monitoring, security) ==
    contributing /\ changelog /\ monitoring /\ security

\* line 163: elif not deploy_files and not test_files and 'archived' in readme
RuleLegacy_NoTestCheck(deploy, test, readme) ==
    deploy = <<>> /\ Contains(S_archived, readme)
RuleLegacy(deploy, test, readme) ==
    deploy = <<>> /\ test = <<>> /\ Contains(S_archived, readme)

\* lines 159 and 165: elif deploy_files
RuleBeta_TwoFiles(deploy) == Len(deploy) > 1
RuleBeta(deploy) == deploy # <<>>

\* line 125
DefaultMaturity == "Unknown"

\* line 168: the assignment of the last else
LastElse_Pass(m) == m
LastElse(m) == "Alpha"

\* lines 155-170; branch names the assignment that was executed
estimate_project_maturity(rd) ==
    LET deploy == deploy_files(rd)
        test == test_files(rd)
        cicd == cicd_files(rd)
        readme == readme_lower(rd)
    IN  IF RuleOuter(deploy, test, cicd, has_version(rd))
        THEN IF RuleProductionReady(has_contributing(rd), has_changelog(rd),
                                    has_monitoring(rd), has_security(rd))
             THEN [maturity |-> "Production-Ready", branch |-> "1a"]
             ELSE IF RuleBeta(deploy)
                  THEN [maturity |-> "Beta", branch |-> "1b"]
                  ELSE [maturity |-> "Alpha", branch |-> "1c"]
        ELSE IF RuleLegacy(deploy, test, readme)
             THEN [maturity |-> "Legacy", branch |-> "2"]
             ELSE IF RuleBeta(deploy)
                  THEN [maturity |-> "Beta", branch |-> "3"]
                  ELSE [maturity |-> LastElse(DefaultMaturity), branch |-> "4"]

-----------------------------------------------------------------------------
(* Inputs of the maturity estimator: config paths, README, services.       *)

MaxFiles == 3          \* config files per record
MaxReadmeFrags == 3    \* README fragments per record

PathPool == <<
    <<"k","u","b","e","r","n","e","t","e","s","/","d","e","p","l","o","y",".","y","a","m","l">>,
    <<"t","e","s","t","s","/","u","n","i","t",".","s","p","e","c",".","j","s">>,
    <<".","g","i","t","h","u","b","/","w","o","r","k","f","l","o","w","s","/","c","i",".","y","m","l">>,
    <<"C","O","N","T","R","I","B","U","T","I","N","G",".","m","d">>,
    <<"C","H","A","N","G","E","L","O","G",".","m","d">>,
    <<"P","r","o","d","u","c","t","i","o","n","/","J","e","s","t",".","T","r","a","v","i","s",".","y","m","l">> >>

ReadmePool == <<
    <<"v","e","r","s","i","o","n"," ","2",".","0">>,
    <<"C","o","n","t","r","i","b","u","t","i","n","g"," ","t","o"," ","v","e","r","s","i","o","n"," ","3">>,
    <<"c","h","a","n","g","e","l","o","g">>,
    <<"t","h","i","s"," ","p","r","o","j","e","c","t"," ","i","s"," ","a","r","c","h","i","v","e","d">>,
    <<"V","e","r","s","i","o","n"," ","1","0",".","4","2"," ","C","H","A","N","G","E","L","O","G">> >>

\* the entries of pool whose index is in S, in pool order
RECURSIVE Pick(_, _, _)
Pick(pool, S, i) ==
    IF i > Len(pool) THEN <<>>
    ELSE (IF i \in S THEN <<pool[i]>> ELSE <<>>) \o Pick(pool, S, i + 1)

\* the lines of a text, joined by newlines
RECURSIVE JoinLines(_)
JoinLines(lines) ==
    IF lines = <<>> THEN <<>>
    ELSE IF Len(lines) = 1 THEN lines[1]
    ELSE lines[1] \o <<"\n">> \o JoinLines(Tail(lines))

ConfigFilesOf(S) == LET p == Pick(PathPool, S, 1) IN [i \in 1..Len(p) |-> [path |-> p[i]]]
ReadmeOf(S) == JoinLines(Pick(ReadmePool, S, 1))

\* services dictionaries: any subset of the two keys, any flags
ServicesInputs ==
    UNION {[D -> BOOLEAN] : D \in SUBSET {S_sentry, S_snyk}}

MaturityInputs ==
    {[config_files |-> ConfigFilesOf(P), readme |-> ReadmeOf(R), services |-> sv] :
        P \in {X \in SUBSET (1..Len(PathPool)) : Cardinality(X) <= MaxFiles},
        R \in {X \in SUBSET (1..Len(ReadmePool)) : Cardinality(X) <= MaxReadmeFrags},
        sv \in ServicesInputs}

-----------------------------------------------------------------------------
(* Specification of the maturity estimator alone.                          *)

\* data/processed before the first run: neither file exists
NoProcessed == [written |-> FALSE, csv |-> <<>>, json |-> <<>>]

InitMaturity ==
    /\ repo_data \in MaturityInputs
    /\ config = [tech_keywords |-> <<>>]
    /\ pc = "call"
    /\ maturity = DefaultMaturity
    /\ branch = "none"
    /\ tech_stack = <<>>
    /\ raw = <<>>
    /\ cursor = 0
    /\ all_repos = <<>>
    /\ processed = NoProcessed
    /\ OthersIdle

\* one call of estimate_project_maturity(repo_data)
EstimateMaturity ==
    /\ pc = "call"
    /\ LET r == estimate_project_maturity(repo_data)
       IN  maturity' = r.maturity /\ branch' = r.branch
    /\ pc' = "returned"
    /\ UNCHANGED <<repo_data, config, tech_stack, analyzeVars, otherVars>>

NextMaturity == EstimateMaturity

SpecMaturity == InitMaturity /\ [][NextMaturity]_vars

-----------------------------------------------------------------------------
(* Claims on estimate_project_maturity, checked under SpecMaturity.        *)

\* the signals of the record under analysis
HasDeploy == deploy_files(repo_data) # <<>>
HasTests == test_files(repo_data) # <<>>
HasCicd == cicd_files(repo_data) # <<>>
HasVersion == has_version(repo_data)
HasContributing == has_contributing(repo_data)
HasChangelog == has_changelog(repo_data)
HasMonitoring == has_monitoring(repo_data)
HasSecurity == has_security(repo_data)
ReadmeArchived == Contains(S_archived, Lower(Get(repo_data, "readme", <<>>)))

Rule1Signals == HasDeploy /\ HasTests /\ HasCicd /\ HasVersion
Rule1aSignals == HasContributing /\ HasChangelog /\ HasMonitoring /\ HasSecurity
Rule2Signals == ~HasDeploy /\ ~HasTests /\ ReadmeArchived

Returned == pc = "returned"

\* the examples of the specification
ExampleProductionReady ==
    [config_files |-> ConfigFilesOf({1, 2, 3}), readme |-> ReadmeOf({1, 2, 3}),
     services |-> [k \in {S_sentry, S_snyk} |-> TRUE]]
ExampleNoContributing ==
    [config_files |-> ConfigFilesOf({1, 2, 3}), readme |-> ReadmeOf({1, 3}),
     services |-> [k \in {S_sentry, S_snyk} |-> TRUE]]
ExampleArchived ==
    [config_files |-> <<>>, readme |-> ReadmeOf({4}), services |-> <<>>]
ExampleEmpty ==
    [config_files |-> <<>>, readme |-> <<>>, services |-> <<>>]

\* C1: the result is Production-Ready if and only if all eight signals hold
\* (deploy, tests, CI/CD, version, contributing, changelog, sentry, snyk).
C1_ProductionReadyIffAllSignals ==
    Returned => (maturity = "Production-Ready" <=> (Rule1Signals /\ Rule1aSignals))

C1_Witness ==
    Returned /\ repo_data = ExampleProductionReady /\ maturity = "Production-Ready"

\* C2: with deploy, tests, CI/CD and version present but one of contributing,
\* changelog, monitoring, security missing the result is Beta, and the inner
\* else that assigns Alpha inside rule 1 is never executed.
C2_Rule1WithoutExtrasIsBeta ==
    Returned =>
        /\ branch # "1c"
        /\ (Rule1Signals /\ ~Rule1aSignals) => (maturity = "Beta" /\ branch = "1b")

C2_Witness ==
    Returned /\ repo_data = ExampleNoContributing /\ maturity = "Beta" /\ branch = "1b"

\* C3: the result is Legacy if and only if there is no deploy path, no test
\* path and the lowercased README contains "archived".
C3_LegacyIff ==
    Returned => (maturity = "Legacy" <=> Rule2Signals)

C3_Witness ==
    Returned /\ repo_data = ExampleArchived /\ maturity = "Legacy"

\* C4: when neither rule 1 nor rule 2 applies the result is Beta exactly when
\* a deploy path is present, and Alpha otherwise.
C4_BetaIffDeployElseAlpha ==
    (Returned /\ ~Rule1Signals /\ ~Rule2Signals) =>
        maturity = (IF HasDeploy THEN "Beta" ELSE "Alpha")

C4_Witness ==
    Returned /\ repo_data = ExampleEmpty /\ maturity = "Alpha" /\ branch = "4"

-----------------------------------------------------------------------------
(* detect_tech_stack                                                       *)

\* lines 76-103: canonical technology and its alias substrings
frameworks == <<
    [tech |-> <<"r","e","a","c","t">>,
     keywords |-> <<<<"r","e","a","c","t">>,
                   <<"j","s","x">>,
                   <<"r","e","a","c","t","-","d","o","m">>,
                   <<"r","e","a","c","t"," ","n","a","t","i","v","e">>,
                   <<"n","e","x","t","j","s">>,
                   <<"n","e","x","t",".","j","s">>>>],
    [tech |-> <<"v","u","e">>,
     keywords |-> <<<<"v","u","e">>,
                   <<"v","u","e","j","s">>,
                   <<"v","u","e",".","j","s">>,
                   <<"n","u","x","t">>>>],
    [tech |-> <<"a","n","g","u","l","a","r">>,
     keywords |-> <<<<"a","n","g","u","l","a","r">>,
                   <<"a","n","g","u","l","a","r","j","s">>,
                   <<"n","g","-">>>>],
    [tech |-> <<"d","j","a","n","g","o">>,
     keywords |-> <<<<"d","j","a","n","g","o">>,
                   <<"d","j","a","n","g","o","r","e","s","t","f","r","a","m","e","w","o","r","k">>>>],
    [tech |-> <<"f","l","a","s","k">>,
     keywords |-> <<<<"f","l","a","s","k">>,
                   <<"f","l","a","s","k","-">>>>],
    [tech |-> <<"f","a","s","t","a","p","i">>,
     keywords |-> <<<<"f","a","s","t","a","p","i">>,
                   <<"f","a","s","t","-","a","p","i">>>>],
    [tech |-> <<"e","x","p","r","e","s","s">>,
     keywords |-> <<<<"e","x","p","r","e","s","s">>,
                   <<"e","x","p","r","e","s","s","j","s">>,
                   <<"e","x","p","r","e","s","s",".","j","s">>>>],
    [tech |-> <<"s","p","r","i","n","g">>,
     keywords |-> <<<<"s","p","r","i","n","g"," ","b","o","o","t">>,
                   <<"s","p","r","i","n","g"," ","f","r","a","m","e","w","o","r","k">>>>],
    [tech |-> <<"a","w","s">>,
     keywords |-> <<<<"a","w","s">>,
                   <<"a","m","a","z","o","n"," ","w","e","b"," ","s","e","r","v","i","c","e","s">>,
                   <<"s","3">>,
                   <<"e","c","2">>,
                   <<"l","a","m","b","d","a">>,
                   <<"d","y","n","a","m","o","d","b">>>>],
    [tech |-> <<"a","z","u","r","e">>,
     keywords |-> <<<<"a","z","u","r","e">>,
                   <<"m","i","c","r","o","s","o","f","t"," ","a","z","u","r","e">>>>],
    [tech |-> <<"g","c","p">>,
     keywords |-> <<<<"g","c","p">>,
                   <<"g","o","o","g","l","e"," ","c","l","o","u","d">>,
                   <<"g","o","o","g","l","e"," ","c","l","o","u","d"," ","p","l","a","t","f","o","r","m">>>>],
    [tech |-> <<"k","u","b","e","r","n","e","t","e","s">>,
     keywords |-> <<<<"k","u","b","e","r","n","e","t","e","s">>,
                   <<"k","8","s">>,
                   <<"k","u","b","e","c","t","l">>>>],
    [tech |-> <<"d","o","c","k","e","r">>,
     keywords |-> <<<<"d","o","c","k","e","r">>,
                   <<"c","o","n","t","a","i","n","e","r","i","z","a","t","i","o","n">>,
                   <<"c","o","n","t","a","i","n","e","r","i","s","e","d">>>>],
    [tech |-> <<"t","e","r","r","a","f","o","r","m">>,
     keywords |-> <<<<"t","e","r","r","a","f","o","r","m">>,
                   <<"t","e","r","r","a","g","r","u","n","t">>>>],
    [tech |-> <<"m","o","n","g","o","d","b">>,
     keywords |-> <<<<"m","o","n","g","o","d","b">>,
                   <<"m","o","n","g","o">>>>],
    [tech |-> <<"p","o","s","t","g","r","e","s","q","l">>,
     keywords |-> <<<<"p","o","s","t","g","r","e","s","q","l">>,
                   <<"p","o","s","t","g","r","e","s">>>>],
    [tech |-> <<"m","y","s","q","l">>,
     keywords |-> <<<<"m","y","s","q","l">>>>],
    [tech |-> <<"r","e","d","i","s">>,
     keywords |-> <<<<"r","e","d","i","s">>>>],
    [tech |-> <<"g","r","a","p","h","q","l">>,
     keywords |-> <<<<"g","r","a","p","h","q","l">>,
                   <<"a","p","o","l","l","o">>>>],
    [tech |-> <<"t","a","i","l","w","i","n","d">>,
     keywords |-> <<<<"t","a","i","l","w","i","n","d">>,
                   <<"t","a","i","l","w","i","n","d","c","s","s">>,
                   <<"t","a","i","l","w","i","n","d"," ","c","s","s">>>>],
    [tech |-> <<"b","o","o","t","s","t","r","a","p">>,
     keywords |-> <<<<"b","o","o","t","s","t","r","a","p"," ","c","s","s">>,
                   <<"b","o","o","t","s","t","r","a","p"," ","f","r","a","m","e","w","o","r","k">>>>],
    [tech |-> <<"w","e","b","p","a","c","k">>,
     keywords |-> <<<<"w","e","b","p","a","c","k">>>>],
    [tech |-> <<"v","i","t","e">>,
     keywords |-> <<<<"v","i","t","e">>>>],
    [tech |-> <<"j","e","s","t">>,
     keywords |-> <<<<"j","e","s","t">>,
                   <<"j","e","s","t"," ","t","e","s","t","i","n","g">>>>],
    [tech |-> <<"c","y","p","r","e","s","s">>,
     keywords |-> <<<<"c","y","p","r","e","s","s">>,
                   <<"c","y","p","r","e","s","s",".","i","o">>>>],
    [tech |-> <<"g","i","t","h","u","b"," ","a","c","t","i","o","n","s">>,
     keywords |-> <<<<"g","i","t","h","u","b"," ","a","c","t","i","o","n","s">>,
                   <<"g","i","t","h","u","b"," ","w","o","r","k","f","l","o","w">>>>] >>

\* set.add on the tag set, kept as a duplicate-free list (lines 63, 73, 108)
tech_stack_add_Append(acc, tag) == Append(acc, tag)
tech_stack_add(acc, tag) == IF InList(tag, acc) THEN acc ELSE Append(acc, tag)

\* line 63: the tag of a language key
LanguageTag_Raw(lang) == lang
LanguageTag(lang) == Lower(lang)

\* lines 61-63: if 'languages' in repo_data and repo_data['languages']: add every key
RECURSIVE AddLanguages(_, _)
AddLanguages(acc, langs) ==
    IF langs = {} THEN acc
    ELSE LET lang == CHOOSE l \in langs : TRUE
         IN  AddLanguages(tech_stack_add(acc, LanguageTag(lang)), langs \ {lang})

LanguageKeys(rd) ==
    IF "languages" \in DOMAIN rd /\ DOMAIN rd["languages"] # {}
    THEN DOMAIN rd["languages"]
    ELSE {}

\* lines 66-67: content = (readme + ' ' + techbragging).lower()
content(rd) == Lower(Get(rd, "readme", <<>>) \o <<" ">> \o Get(rd, "techbragging", <<>>))

\* line 72: r'\\b' is the regular expression of an escaped backslash followed by
\* the letter b, and re.escape makes the keyword literal: the pattern matches
\* the text  \b<keyword>\b  with its two backslashes, nothing else.
BackslashB == <<"\\", "b">>
KeywordSearch(keyword, text) ==
    Contains(BackslashB \o Lower(keyword) \o BackslashB, text)

\* lines 71-73: for keyword in keywords: if re.search(...): add keyword.lower()
RECURSIVE AddKeywords(_, _, _)
AddKeywords(acc, keywords, text) ==
    IF keywords = <<>> THEN acc
    ELSE AddKeywords(
            IF KeywordSearch(Head(keywords), text)
            THEN tech_stack_add(acc, Lower(Head(keywords)))
            ELSE acc,
            Tail(keywords), text)

\* lines 106-109: the first alias found in the content ends the inner loop
FrameworkMatches_FirstAliasOnly(fw, text) == Contains(fw.keywords[1], text)
FrameworkMatches(fw, text) ==
    \E i \in 1..Len(fw.keywords) : Contains(fw.keywords[i], text)

\* lines 105-109: for tech, keywords in frameworks.items()
RECURSIVE AddFrameworks(_, _, _)
AddFrameworks(acc, table, text) ==
    IF table = <<>> THEN acc
    ELSE AddFrameworks(
            IF FrameworkMatches(Head(table), text)
            THEN tech_stack_add(acc, Head(table).tech)
            ELSE acc,
            Tail(table), text)

\* lines 58-109: the tag set before it is turned into a list
tech_stack_set(rd, cfg) ==
    AddFrameworks(
        AddKeywords(AddLanguages(<<>>, LanguageKeys(rd)), cfg.tech_keywords, content(rd)),
        frameworks, content(rd))

\* line 111: list(tech_stack); the order of a set's elements is arbitrary
Orders(n) ==
    {p \in [1..n -> 1..n] : \A i, j \in 1..n : i # j => p[i] # p[j]}
ListOf(acc) == {[i \in 1..Len(acc) |-> acc[p[i]]] : p \in Orders(Len(acc))}

-----------------------------------------------------------------------------
(* Inputs of detect_tech_stack: languages, README, tech-bragging text and  *)
(* the configured keywords.                                                *)

MaxLangs == 1       \* keys of the language map
MaxKeywords == 1    \* configured keywords

LangPool == {<<"G","o">>, <<"V","u","e">>, <<"P","y","t","h","o","n">>}

KeywordPool == {<<"g","o">>, <<"V","u","e">>}

TechReadmePool == {
    <<>>,
    <<"W","e"," ","u","s","e"," ","G","o"," ","d","a","i","l","y">>,
    <<"G","o","i","n","g"," ","f","o","r","w","a","r","d">>,
    <<"s","e","e"," ","\\","b","g","o","\\","b">>,
    <<"B","u","i","l","t"," ","w","i","t","h"," ","V","u","e",".","j","s"," ","a","n","d"," ","J","S","X">>,
    <<"d","e","p","l","o","y","e","d"," ","o","n"," ","K","8","s">> }

TechBraggingPool == {
    <<>>,
    <<"\\","b","v","u","e","\\","b">>,
    <<"k","u","b","e","c","t","l"," ","a","n","d"," ","k","8","s">> }

\* language maps: name -> byte count
LanguageMaps ==
    UNION {[D -> {1}] : D \in {X \in SUBSET LangPool : Cardinality(X) <= MaxLangs}}

\* a record with the given fields; a field whose flag is FALSE is absent
TechRecord(langs, readme, brag, hasLangs, hasReadme, hasBrag) ==
    [k \in ((IF hasLangs THEN {"languages"} ELSE {})
            \cup (IF hasReadme THEN {"readme"} ELSE {})
            \cup (IF hasBrag THEN {"techbragging"} ELSE {})) |->
        CASE k = "languages" -> langs
          [] k = "readme" -> readme
          [] k = "techbragging" -> brag]

TechInputs ==
    {TechRecord(l, r, b, TRUE, TRUE, TRUE) :
        l \in LanguageMaps, r \in TechReadmePool, b \in TechBraggingPool}
    \cup {TechRecord(<<>>, r, <<>>, FALSE, TRUE, FALSE) : r \in TechReadmePool}
    \cup {TechRecord(<<>>, <<>>, <<>>, FALSE, FALSE, FALSE)}

KeywordLists ==
    UNION {[1..n -> KeywordPool] : n \in 0..MaxKeywords}

ConfigInputs == {[tech_keywords |-> kw] : kw \in KeywordLists}

-----------------------------------------------------------------------------
(* Specification of the tech stack detector alone.                         *)

InitTech ==
    /\ repo_data \in TechInputs
    /\ config \in ConfigInputs
    /\ pc = "call"
    /\ maturity = DefaultMaturity
    /\ branch = "none"
    /\ tech_stack = <<>>
    /\ raw = <<>>
    /\ cursor = 0
    /\ all_repos = <<>>
    /\ processed = NoProcessed
    /\ OthersIdle

\* the fields of the record the function reads
FieldsRead == {"languages", "readme", "techbragging"}

HasDefault_LanguagesOnly(key) == key = "languages"

\* every read of the record is guarded: the language map by a membership
\* test, the two texts by get() with the empty string as default
HasDefault(key) == key \in FieldsRead

\* what reading a field of the record does: an absent field without a default
\* is a KeyError
ReadOutcome(rd, key) ==
    IF key \in DOMAIN rd \/ HasDefault(key) THEN "ok" ELSE "KeyError"

\* how a call of detect_tech_stack ends
detect_outcome(rd) ==
    IF \A key \in FieldsRead : ReadOutcome(rd, key) = "ok" THEN "returned" ELSE "raised"

\* one call of detect_tech_stack(repo_data, config)
DetectTechStack ==
    /\ pc = "call"
    /\ pc' = detect_outcome(repo_data)
    /\ IF pc' = "returned"
       THEN tech_stack' \in ListOf(tech_stack_set(repo_data, config))
       ELSE tech_stack' = tech_stack
    /\ UNCHANGED <<repo_data, config, maturity, branch, analyzeVars, otherVars>>

NextTech == DetectTechStack

SpecTech == InitTech /\ [][NextTech]_vars

-----------------------------------------------------------------------------
(* Claims on detect_tech_stack, checked under SpecTech.                    *)

S_go == <<"g","o">>
S_vue == <<"v","u","e">>
S_react == <<"r","e","a","c","t">>

\* how many times x occurs in list
Count(x, list) == Cardinality({i \in 1..Len(list) : list[i] = x})

\* the keys of the language map of the record under analysis
LanguageMapKeys ==
    IF "languages" \in DOMAIN repo_data THEN DOMAIN repo_data["languages"] ELSE {}

\* the lowercased corpus: README, a space, the tech-bragging text
Corpus ==
    Lower(Get(repo_data, "readme", <<>>) \o <<" ">> \o Get(repo_data, "techbragging", <<>>))

ConfiguredKeywords == {config.tech_keywords[i] : i \in 1..Len(config.tech_keywords)}

\* C7: the lowercased form of every key of the language map is a tag of the
\* result, whatever the README, the tech-bragging text and the keywords are.
C7_LanguageKeysAreTags ==
    Returned => \A lang \in LanguageMapKeys : InList(Lower(lang), tech_stack)

C7_Witness ==
    /\ Returned
    /\ <<"G","o">> \in LanguageMapKeys
    /\ Get(repo_data, "readme", <<>>) # <<>>
    /\ config.tech_keywords # <<>>
    /\ InList(S_go, tech_stack)

\* word characters of a regular expression's \b
IsWordChar(c) ==
    \/ \E i \in 1..Len(LowerChars) : c = LowerChars[i] \/ c = UpperChars[i]
    \/ c \in DigitChars
    \/ c = "_"

\* word occurs in text at offset i with no word character on either side
StandaloneAt(word, text, i) ==
    /\ OccursAt(word, text, i)
    /\ i = 0 \/ ~IsWordChar(text[i])
    /\ i + Len(word) = Len(text) \/ ~IsWordChar(text[i + Len(word) + 1])

OccursStandalone(word, text) == \E i \in 0..Len(text) : StandaloneAt(word, text, i)

OnlyInsideLongerWord(word, text) == Contains(word, text) /\ ~OccursStandalone(word, text)

\* tags the other two steps produce: language keys and framework names
LanguageTags == {Lower(lang) : lang \in LanguageMapKeys}
FrameworkTags ==
    {frameworks[k].tech : k \in {n \in 1..Len(frameworks) :
        \E i \in 1..Len(frameworks[n].keywords) : Contains(frameworks[n].keywords[i], Corpus)}}

\* C8: a configured keyword that occurs in the corpus as a standalone word
\* becomes a tag; one that occurs only inside a longer word is not added.
C8_KeywordMatchesWholeWords ==
    Returned =>
        \A keyword \in ConfiguredKeywords :
            /\ OccursStandalone(Lower(keyword), Corpus) => InList(Lower(keyword), tech_stack)
            /\ (/\ OnlyInsideLongerWord(Lower(keyword), Corpus)
                /\ Lower(keyword) \notin LanguageTags \cup FrameworkTags)
               => ~InList(Lower(keyword), tech_stack)

\* what the keyword step does: the tag is added exactly when the corpus holds
\* the keyword between two literal backslash-b pairs
C8_Observed ==
    Returned =>
        \A keyword \in ConfiguredKeywords :
            Lower(keyword) \notin LanguageTags \cup FrameworkTags =>
                (InList(Lower(keyword), tech_stack)
                    <=> Contains(<<"\\","b">> \o Lower(keyword) \o <<"\\","b">>, Corpus))

\* C9: a canonical technology with some alias in the corpus is in the result
\* exactly once; one with no alias in the corpus that is neither a language
\* key nor a matched keyword is not in the result.
AliasPresent(fw) == \E i \in 1..Len(fw.keywords) : Contains(fw.keywords[i], Corpus)

MatchedKeywordTags ==
    {Lower(keyword) : keyword \in {k \in ConfiguredKeywords : KeywordSearch(k, Corpus)}}

C9_CanonicalTagExactlyOnce ==
    Returned =>
        \A k \in 1..Len(frameworks) :
            LET fw == frameworks[k]
            IN  /\ AliasPresent(fw) => Count(fw.tech, tech_stack) = 1
                /\ (~AliasPresent(fw) /\ fw.tech \notin LanguageTags
                        /\ fw.tech \notin MatchedKeywordTags)
                   => Count(fw.tech, tech_stack) = 0

C9_Witness ==
    /\ Returned
    /\ Contains(<<"v","u","e">>, Corpus) /\ Contains(<<"v","u","e",".","j","s">>, Corpus)
    /\ Contains(<<"j","s","x">>, Corpus)
    /\ Count(S_vue, tech_stack) = 1
    /\ Count(S_react, tech_stack) = 1

\* C10: every tag of the result is lowercase and no tag occurs twice, also
\* when a language key, a keyword and a framework alias give the same tag.
C10_LowercaseAndNoDuplicates ==
    Returned =>
        /\ \A i \in 1..Len(tech_stack) : tech_stack[i] = Lower(tech_stack[i])
        /\ \A i, j \in 1..Len(tech_stack) : i # j => tech_stack[i] # tech_stack[j]

C10_Witness ==
    /\ Returned
    /\ <<"V","u","e">> \in LanguageMapKeys
    /\ <<"V","u","e">> \in ConfiguredKeywords
    /\ Contains(<<"\\","b","v","u","e","\\","b">>, Corpus)
    /\ Count(S_vue, tech_stack) = 1

\* the function ended with an exception
Raised == pc = "raised"

\* neither text is present or both are empty
EmptyCorpus == Corpus = <<" ">>

\* C24: detect_tech_stack has no error outcome: whatever fields the record
\* has, the call returns a list of tags and never raises; for a record with
\* no README, no tech-bragging text and an empty or absent language map the
\* list is empty.
C24_NoErrorOutcome ==
    /\ ~Raised
    /\ Returned =>
          /\ \A i, j \in 1..Len(tech_stack) : tech_stack[i] = tech_stack[j] => i = j
          /\ (EmptyCorpus /\ LanguageMapKeys = {}) => tech_stack = <<>>

C24_Witness ==
    /\ Returned
    /\ DOMAIN repo_data \cap FieldsRead = {}
    /\ ConfiguredKeywords # {}
    /\ tech_stack = <<>>

-----------------------------------------------------------------------------
(* analyze_repositories                                                    *)

SummaryMax == 200     \* line 256
SummaryKeep == 197    \* line 257

S_sep == <<"\n", "\n">>
S_ellipsis == <<".", ".", ".">>
\* the grave accent has no TLA+ string literal: it is the character GraveAccent
GraveAccent == "grave"
MarkdownChars == {"#", "*", GraveAccent, "_"}
WhitespaceChars == {" ", "\n", "\t", "\r"}

\* offset of the first occurrence of sub in s, -1 when there is none (str.find)
Find(sub, s) ==
    IF Contains(sub, s)
    THEN CHOOSE i \in 0..Len(s) :
            OccursAt(sub, s, i) /\ \A j \in 0..(i - 1) : ~OccursAt(sub, s, j)
    ELSE -1

\* str.split(sep)
RECURSIVE Split(_, _)
Split(s, sep) ==
    LET i == Find(sep, s)
    IN  IF i < 0 THEN <<s>>
        ELSE <<SubSeq(s, 1, i)>> \o Split(SubSeq(s, i + Len(sep) + 1, Len(s)), sep)

\* str.startswith(prefix)
StartsWith(s, prefix) == OccursAt(prefix, s, 0)

\* line 253: re.sub removes every run of  #  *  grave accent  _
StripMarkdown(s) == SelectSeq(s, LAMBDA c : c \notin MarkdownChars)

\* str.strip()
RECURSIVE LStrip(_)
LStrip(s) == IF s # <<>> /\ Head(s) \in WhitespaceChars THEN LStrip(Tail(s)) ELSE s
RECURSIVE RStrip(_)
RStrip(s) ==
    IF s # <<>> /\ s[Len(s)] \in WhitespaceChars THEN RStrip(SubSeq(s, 1, Len(s) - 1)) ELSE s
Strip(s) == RStrip(LStrip(s))

FirstParagraph_NoSkip(paragraphs) == paragraphs[1]

\* lines 245-250: the first block, or the second one when the first starts
\* with '#' ("" when there is no second block)
FirstParagraph(paragraphs) ==
    IF StartsWith(paragraphs[1], <<"#">>)
    THEN IF Len(paragraphs) > 1 THEN paragraphs[2] ELSE <<>>
    ELSE paragraphs[1]

Truncate_KeepMax(summary) ==
    IF Len(summary) > SummaryMax
    THEN SubSeq(summary, 1, SummaryMax) \o S_ellipsis
    ELSE summary

\* lines 256-257
Truncate(summary) ==
    IF Len(summary) > SummaryMax
    THEN SubSeq(summary, 1, SummaryKeep) \o S_ellipsis
    ELSE summary

\* lines 238-259: the summary of a README
extract_summary(readme) ==
    IF readme = <<>> THEN <<>>
    ELSE Truncate(Strip(StripMarkdown(FirstParagraph(Split(readme, S_sep)))))

\* lines 214-259: the analysed record of one repository; tags is the list
\* detect_tech_stack returned
repo_analysis(org, repo_info, rd, tags) ==
    [org |-> org,
     name |-> repo_info["name"],
     description |-> Get(Get(rd, "metadata", <<>>), "description", <<>>),
     url |-> Get(repo_info, "url", <<>>),
     createdAt |-> Get(repo_info, "createdAt", <<>>),
     updatedAt |-> Get(repo_info, "updatedAt", <<>>),
     homepage |-> Get(Get(rd, "metadata", <<>>), "homepageUrl", <<>>),
     tech_stack |-> tags,
     languages |-> Get(rd, "languages", <<>>),
     services |-> Get(rd, "services", <<>>),
     maturity |-> estimate_project_maturity(rd).maturity,
     summary |-> extract_summary(Get(rd, "readme", <<>>))]

-----------------------------------------------------------------------------
(* Inputs of analyze_repositories: what the extraction left under data/raw *)

MaxRepos == 2    \* repositories listed in repos.json

S_heading == <<"#"," ","D","e","m","o","\n","\n">>

\* a raw record as extract_repo_data writes it (extract_data.py lines 41-104)
RawRecord(langs, readme, brag, paths, services, meta) ==
    [name |-> "repo", organization |-> "org", metadata |-> meta, languages |-> langs,
     contributors |-> <<>>, readme |-> readme, techbragging |-> brag,
     config_files |-> ConfigFilesOf(paths), services |-> services]

BothServices == [k \in {S_sentry, S_snyk} |-> TRUE]
SomeMetadata == [description |-> <<"d","e","m","o">>, homepageUrl |-> <<"h","t","t","p",":","/","/","x">>]

RawPool == {
    RawRecord([l \in {<<"V","u","e">>} |-> 1], S_heading \o ReadmeOf({1, 2, 3}),
              <<"\\","b","v","u","e","\\","b">>, {1, 2, 3}, BothServices, SomeMetadata),
    RawRecord([l \in {<<"G","o">>} |-> 1], ReadmeOf({1, 3}), <<>>, {1, 2, 3}, BothServices, SomeMetadata),
    RawRecord(<<>>, ReadmeOf({4}), <<>>, {}, <<>>, <<>>),
    RawRecord(<<>>, <<>>, <<>>, {}, <<>>, <<>>),
    RawRecord([l \in {<<"G","o">>} |-> 1], <<"*","*","G","o","*","*"," ","o","n"," ","K","8","s">>,
              <<>>, {1}, <<>>, SomeMetadata),
    RawRecord(<<>>, ReadmeOf({4}), <<>>, {2}, [k \in {S_sentry, S_snyk} |-> FALSE], <<>>) }

\* load_repo_data returns {} when repo_data.json cannot be read
Unreadable == <<>>

\* the i-th entry of repos.json
RepoInfo(i) ==
    [name |-> <<"r", "e", "p", "o", ToString(i)>>, url |-> <<"u", ToString(i)>>, createdAt |-> <<"2","0","2","4">>,
     updatedAt |-> <<"2","0","2","5">>]

RawInputs ==
    UNION {[1..n -> RawPool \cup {Unreadable}] : n \in 0..MaxRepos}

\* the keywords of the analysis configuration
AnalysisConfig == [tech_keywords |-> <<<<"g","o">>, <<"V","u","e">>>>]

-----------------------------------------------------------------------------
(* Specification of analyze_repositories over one organization.            *)

InitAnalyze ==
    /\ raw \in RawInputs
    /\ cursor = 0
    /\ all_repos = <<>>
    /\ processed = NoProcessed
    /\ OthersIdle
    /\ config = AnalysisConfig
    /\ repo_data = <<>>
    /\ pc = "loop"
    /\ maturity = DefaultMaturity
    /\ branch = "none"
    /\ tech_stack = <<>>

\* lines 204-211: the repository's data cannot be loaded, continue
SkipRepo ==
    /\ pc = "loop"
    /\ cursor < Len(raw)
    /\ DOMAIN raw[cursor + 1] = {}
    /\ cursor' = cursor + 1
    /\ repo_data' = raw[cursor + 1]
    /\ UNCHANGED <<config, pc, maturity, branch, tech_stack, raw, all_repos, processed, otherVars>>

\* lines 204-262: one iteration of the loop over the listed repositories
AnalyzeRepo ==
    /\ pc = "loop"
    /\ cursor < Len(raw)
    /\ DOMAIN raw[cursor + 1] # {}
    /\ LET rd == raw[cursor + 1]
           r == estimate_project_maturity(rd)
       IN  /\ repo_data' = rd
           /\ tech_stack' \in ListOf(tech_stack_set(rd, config))
           /\ maturity' = r.maturity
           /\ branch' = r.branch
           /\ all_repos' = Append(all_repos, repo_analysis("org", RepoInfo(cursor + 1), rd, tech_stack'))
    /\ cursor' = cursor + 1
    /\ UNCHANGED <<config, pc, raw, processed, otherVars>>

\* lines 264-274: the list is saved as repositories.csv and repositories.json
WriteProcessed ==
    /\ pc = "loop"
    /\ cursor = Len(raw)
    /\ processed' = [written |-> TRUE, csv |-> all_repos, json |-> all_repos]
    /\ pc' = "written"
    /\ UNCHANGED <<repo_data, config, maturity, branch, tech_stack, raw, cursor, all_repos, otherVars>>

NextAnalyze == SkipRepo \/ AnalyzeRepo \/ WriteProcessed

SpecAnalyze == InitAnalyze /\ [][NextAnalyze]_vars

-----------------------------------------------------------------------------
(* Claims on analyze_repositories, checked under SpecAnalyze.              *)

MaturityLevels == {"Alpha", "Beta", "Production-Ready", "Legacy"}

\* C5: every record of the processed dataset, and of the list it is written
\* from, has a maturity among Alpha, Beta, Production-Ready, Legacy: never
\* the initial Unknown.
C5_MaturityIsALevel ==
    /\ \A i \in 1..Len(all_repos) : all_repos[i].maturity \in MaturityLevels
    /\ \A i \in 1..Len(processed.json) : processed.json[i].maturity \in MaturityLevels
    /\ \A i \in 1..Len(processed.csv) : processed.csv[i].maturity \in MaturityLevels

C5_Witness ==
    /\ processed.written
    /\ Len(processed.json) = 2
    /\ processed.json[1].maturity = "Alpha"
    /\ processed.json[2].maturity = "Legacy"

-----------------------------------------------------------------------------
(* detect_services (utils/github.py): the service scan over the config     *)
(* files of one repository, one file per step, then the workflows check.   *)
(* The answers of the data source are part of the input: every config file *)
(* entry carries the answer its content request will get.                   *)

S_github_actions == <<"g","i","t","h","u","b"," ","a","c","t","i","o","n","s">>
S_Sentry == <<"S","e","n","t","r","y">>
S_Snyk == <<"S","n","y","k">>

\* None, the result of get_file_content when nothing could be read
NoContent == [ok |-> FALSE, text |-> <<>>]

\* get_file_content: the decoded text when the answer is a mapping with a
\* 'content' entry; None when the request fails or the answer has no content
get_file_content(response) ==
    IF response.kind = "content" THEN [ok |-> TRUE, text |-> response.text]
    ELSE NoContent

\* line 226: every configured keyword starts false
InitialFlags(service_keywords) == [s \in Range(service_keywords) |-> FALSE]

FlagAfter_Assign(old, hit) == hit

\* lines 234-235: a hit sets the flag, no hit leaves it as it was
FlagAfter(old, hit) == IF hit THEN TRUE ELSE old

\* line 234:  service.lower() in content_lower
ServiceHit(service, text) == Contains(Lower(service), Lower(text))

\* lines 231-235 for the content of one file
ScanContent(services, file_content, service_keywords) ==
    IF file_content.ok /\ file_content.text # <<>>
    THEN [s \in DOMAIN services |->
             IF s \in Range(service_keywords)
             THEN FlagAfter(services[s], ServiceHit(s, file_content.text))
             ELSE services[s]]
    ELSE services

LoopContinues_UnlessFailed(file_content) == file_content.ok

\* lines 228-237: the try/except is inside the loop body, so the loop goes on
\* to the next file whatever the request gave
LoopContinues(file_content) == TRUE

WorkflowsCheck_AnyList(services, result) ==
    IF result.kind = "list"
    THEN [s \in DOMAIN services \cup {S_github_actions} |->
             IF s = S_github_actions THEN TRUE ELSE services[s]]
    ELSE services

\* lines 240-245: a non-empty list answer sets 'github actions'
WorkflowsCheck(services, result) ==
    IF result.kind = "list" /\ result.len > 0
    THEN [s \in DOMAIN services \cup {S_github_actions} |->
             IF s = S_github_actions THEN TRUE ELSE services[s]]
    ELSE services

RECURSIVE ScanFiles(_, _, _)
ScanFiles(services, config_files, service_keywords) ==
    IF config_files = <<>> THEN services
    ELSE ScanFiles(ScanContent(services, get_file_content(Head(config_files).response),
                               service_keywords),
                   Tail(config_files), service_keywords)

\* the whole call, lines 226-247
detect_services(config_files, service_keywords, workflows) ==
    WorkflowsCheck(ScanFiles(InitialFlags(service_keywords), config_files, service_keywords),
                   workflows)

\* Inputs of the scan.
MaxScanFiles == 2

S_cfg_sentry == <<"d","s","n",":"," ","S","E","N","T","R","Y","_","U","R","L">>
S_cfg_snyk == <<"s","n","y","k"," ","t","e","s","t">>
S_cfg_plain == <<"n","a","m","e",":"," ","a","p","p">>
S_cfg_both == <<"S","e","n","t","r","y","+","S","N","Y","K">>

ContentResponse(text) == [kind |-> "content", text |-> text]
FetchError == [kind |-> "error", text |-> <<>>]
NotAFile == [kind |-> "other", text |-> <<>>]

ResponsePool == <<FetchError, NotAFile, ContentResponse(<<>>), ContentResponse(S_cfg_sentry),
                  ContentResponse(S_cfg_snyk), ContentResponse(S_cfg_plain),
                  ContentResponse(S_cfg_both)>>

FileEntry(i, response) == [path |-> <<"f", ToString(i)>>, response |-> response]

ScanFileLists ==
    UNION {{[i \in 1..n |-> FileEntry(i, ResponsePool[c[i]])] :
               c \in [1..n -> 1..Len(ResponsePool)]} : n \in 0..MaxScanFiles}

ServiceVocabularies == {<<>>, <<S_sentry>>, <<S_sentry, S_Snyk>>,
                        <<S_Sentry, S_snyk, S_github_actions>>}

WorkflowsResponses == {[kind |-> "error", len |-> 0], [kind |-> "list", len |-> 0],
                       [kind |-> "list", len |-> 2], [kind |-> "mapping", len |-> 0]}

InitScan ==
    /\ repo_data = <<>> /\ config = <<>> /\ pc = "idle"
    /\ maturity = DefaultMaturity /\ branch = "none" /\ tech_stack = <<>>
    /\ raw = <<>> /\ cursor = 0 /\ all_repos = <<>> /\ processed = NoProcessed
    /\ LaterIdle
    /\ xrepo = Idle /\ summ = Idle /\ top = Idle /\ run = Idle
    /\ \E files \in ScanFileLists, kw \in ServiceVocabularies, wf \in WorkflowsResponses :
          scan = [pc |-> "call", service_keywords |-> kw, config_files |-> files,
                  workflows |-> wf, services |-> <<>>, i |-> 0, fetched |-> <<>>]

notScan == <<repo_data, config, pc, maturity, branch, tech_stack, raw, cursor, all_repos,
             processed, xrepo, summ, top, run, laterVars>>

\* line 226
ScanStart ==
    /\ scan.pc = "call"
    /\ scan' = [scan EXCEPT !.pc = "loop",
                            !.services = InitialFlags(scan.service_keywords)]
    /\ UNCHANGED notScan

\* one iteration of the loop of lines 228-237
ScanFile ==
    /\ scan.pc = "loop"
    /\ scan.i < Len(scan.config_files)
    /\ LET k == scan.i + 1
           file_content == get_file_content(scan.config_files[k].response)
       IN scan' = [scan EXCEPT
                      !.services = ScanContent(scan.services, file_content, scan.service_keywords),
                      !.fetched = Append(scan.fetched, k),
                      !.i = IF LoopContinues(file_content) THEN k ELSE Len(scan.config_files)]
    /\ UNCHANGED notScan

\* lines 239-247: the loop is over, workflows check and return
ScanWorkflows ==
    /\ scan.pc = "loop"
    /\ scan.i = Len(scan.config_files)
    /\ scan' = [scan EXCEPT !.pc = "returned",
                            !.services = WorkflowsCheck(scan.services, scan.workflows)]
    /\ UNCHANGED notScan

NextScan == ScanStart \/ ScanFile \/ ScanWorkflows

SpecScan == InitScan /\ [][NextScan]_vars

-----------------------------------------------------------------------------
(* Claims about the scan.                                                   *)

ScanReturned == scan.pc = "returned"

FetchFailed(entry) == ~get_file_content(entry.response).ok

WithoutFailed(config_files) == SelectSeq(config_files, LAMBDA entry : ~FetchFailed(entry))

FlagSetBy(entry, s) ==
    /\ get_file_content(entry.response).ok
    /\ Contains(Lower(s), Lower(entry.response.text))

\* C12: no step of a scan turns a service flag from true back to false: a
\* flag that is true before a step (a file with or without the keyword, with
\* empty content, with a failed request, or the workflows check) is still
\* present and true after it.
C12_FlagsNeverRevert ==
    [][\A s \in DOMAIN scan.services :
          scan.services[s] => (s \in DOMAIN scan'.services /\ scan'.services[s])]_vars

C12_Witness ==
    /\ ScanReturned
    /\ Len(scan.config_files) = 2
    /\ FlagSetBy(scan.config_files[1], S_sentry)
    /\ ~FlagSetBy(scan.config_files[2], S_sentry)
    /\ scan.workflows.kind = "list" /\ scan.workflows.len > 0
    /\ S_sentry \in DOMAIN scan.services /\ scan.services[S_sentry]

\* C13: a config file whose content cannot be fetched does not end the scan:
\* every file of the list is requested in order, and the returned flags are
\* those of the scan of the list without the failed files.
C13_FailedFileIsSkipped ==
    ScanReturned =>
        /\ scan.fetched = [k \in 1..Len(scan.config_files) |-> k]
        /\ scan.services = detect_services(WithoutFailed(scan.config_files),
                                           scan.service_keywords, scan.workflows)

C13_Witness ==
    /\ ScanReturned
    /\ Len(scan.config_files) = 2
    /\ scan.config_files[1].response.kind = "error"
    /\ FlagSetBy(scan.config_files[2], S_snyk)
    /\ S_Snyk \in DOMAIN scan.services /\ scan.services[S_Snyk]

-----------------------------------------------------------------------------
(* extract_repo_data (extract_data.py 28-113): the record of one repository *)
(* is built field by field from the answers of the data source and written  *)
(* to data/raw/<org>/<repo>/repo_data.json.                                  *)

DefaultMaxContributors == 50

Failure == [ok |-> FALSE, value |-> <<>>]
Answer(value) == [ok |-> TRUE, value |-> value]

Take(list, n) == IF Len(list) <= n THEN list ELSE SubSeq(list, 1, n)

\* get_repository_languages: the answer, or {} when the request fails
get_repository_languages(answer) == IF answer.ok THEN answer.value ELSE <<>>

\* get_repository_contributors: the first max_contributors entries of the
\* answer, or [] when the request fails
get_repository_contributors(answer, cfg) ==
    IF answer.ok /\ "github" \in DOMAIN cfg
    THEN Take(answer.value, Get(cfg.github, "max_contributors", DefaultMaxContributors))
    ELSE <<>>

\* find_config_files: the listing, or [] when the request fails
find_config_files(answer) == IF answer.ok THEN answer.value ELSE <<>>

\* lines 72-77 and 84-87: the first name that yields non-empty text, else ""
RECURSIVE FirstContent(_)
FirstContent(responses) ==
    IF responses = <<>> THEN <<>>
    ELSE LET c == get_file_content(Head(responses))
         IN IF c.ok /\ c.text # <<>> THEN c.text ELSE FirstContent(Tail(responses))

\* line 98:  config['analysis']['services']['keywords']  raises when a key of
\* the path is missing
HasServiceKeywords(cfg) ==
    /\ "analysis" \in DOMAIN cfg
    /\ "services" \in DOMAIN cfg.analysis
    /\ "keywords" \in DOMAIN cfg.analysis.services

\* lines 93-104: the listing and the scan share one try block; an exception
\* anywhere in it resets both fields
ConfigAndServices(listing, workflows, cfg) ==
    LET config_files == find_config_files(listing)
    IN IF HasServiceKeywords(cfg)
       THEN [config_files |-> config_files,
             services |-> detect_services(config_files, cfg.analysis.services.keywords,
                                          workflows)]
       ELSE [config_files |-> <<>>, services |-> <<>>]

\* Inputs: the configuration and the answers of the data source.
S_readme_a == <<"#"," ","A","p","p">>
S_readme_b == <<"l","o","w","e","r">>
S_brag_a == <<"f","a","s","t">>

XConfig(kw) == [github |-> [max_contributors |-> 1],
                analysis |-> [services |-> [keywords |-> kw]]]
XConfigNoKeywords == [github |-> <<>>, analysis |-> [services |-> <<>>]]

XConfigs == {XConfigNoKeywords, XConfig(<<S_sentry>>),
             XConfig(<<S_Sentry, S_snyk, S_github_actions>>)}

SomeLanguages == [l \in {<<"G","o">>} |-> 10]
SomeContributors == <<[author |-> "a", total |-> 3], [author |-> "b", total |-> 1]>>

ReadmeResponses == {<<FetchError, FetchError, FetchError>>,
                    <<ContentResponse(S_readme_a), FetchError, FetchError>>,
                    <<ContentResponse(<<>>), ContentResponse(S_readme_b), FetchError>>,
                    <<NotAFile, FetchError, ContentResponse(S_readme_b)>>}

BragResponses == {<<FetchError, FetchError>>, <<ContentResponse(S_brag_a), NotAFile>>,
                  <<FetchError, ContentResponse(S_brag_a)>>}

Listings == {Failure, Answer(<<>>),
             Answer(<<FileEntry(1, ContentResponse(S_cfg_sentry))>>),
             Answer(<<FileEntry(1, FetchError), FileEntry(2, ContentResponse(S_cfg_both))>>)}

XSources ==
    [metadata : {Failure, Answer(SomeMetadata)},
     languages : {Failure, Answer(SomeLanguages)},
     contributors : {Failure, Answer(SomeContributors)},
     readme : ReadmeResponses,
     techbragging : BragResponses,
     listing : Listings,
     workflows : WorkflowsResponses]

NotWritten == [exists |-> FALSE, data |-> <<>>]

InitExtractRepo ==
    /\ repo_data = <<>> /\ config = <<>> /\ pc = "idle"
    /\ maturity = DefaultMaturity /\ branch = "none" /\ tech_stack = <<>>
    /\ raw = <<>> /\ cursor = 0 /\ all_repos = <<>> /\ processed = NoProcessed
    /\ LaterIdle
    /\ scan = Idle /\ summ = Idle /\ top = Idle /\ run = Idle
    /\ \E src \in XSources, cfg \in XConfigs :
          xrepo = [pc |-> "metadata", source |-> src, config |-> cfg,
                   repo_data |-> [name |-> "repo", organization |-> "org"],
                   file |-> NotWritten]

notXrepo == <<repo_data, config, pc, maturity, branch, tech_stack, raw, cursor, all_repos,
              processed, scan, summ, top, run, laterVars>>

\* dict item assignment  d[key] = value
SetItem(d, key, value) == [k \in DOMAIN d \cup {key} |-> IF k = key THEN value ELSE d[k]]

\* lines 46-52
XMetadata ==
    /\ xrepo.pc = "metadata"
    /\ xrepo' = [xrepo EXCEPT !.pc = "languages",
                    !.repo_data = SetItem(xrepo.repo_data, "metadata",
                                     IF xrepo.source.metadata.ok
                                     THEN xrepo.source.metadata.value ELSE <<>>)]
    /\ UNCHANGED notXrepo

\* lines 54-60
XLanguages ==
    /\ xrepo.pc = "languages"
    /\ xrepo' = [xrepo EXCEPT !.pc = "contributors",
                    !.repo_data = SetItem(xrepo.repo_data, "languages",
                                     get_repository_languages(xrepo.source.languages))]
    /\ UNCHANGED notXrepo

\* lines 62-68
XContributors ==
    /\ xrepo.pc = "contributors"
    /\ xrepo' = [xrepo EXCEPT !.pc = "readme",
                    !.repo_data = SetItem(xrepo.repo_data, "contributors",
                                     get_repository_contributors(xrepo.source.contributors,
                                                                 xrepo.config))]
    /\ UNCHANGED notXrepo

\* lines 70-80
XReadme ==
    /\ xrepo.pc = "readme"
    /\ xrepo' = [xrepo EXCEPT !.pc = "techbragging",
                    !.repo_data = SetItem(xrepo.repo_data, "readme",
                                     FirstContent(xrepo.source.readme))]
    /\ UNCHANGED notXrepo

\* lines 82-90
XTechbragging ==
    /\ xrepo.pc = "techbragging"
    /\ xrepo' = [xrepo EXCEPT !.pc = "config_files",
                    !.repo_data = SetItem(xrepo.repo_data, "techbragging",
                                     FirstContent(xrepo.source.techbragging))]
    /\ UNCHANGED notXrepo

\* lines 92-104
XConfigFiles ==
    /\ xrepo.pc = "config_files"
    /\ LET r == ConfigAndServices(xrepo.source.listing, xrepo.source.workflows, xrepo.config)
       IN xrepo' = [xrepo EXCEPT !.pc = "save",
                       !.repo_data = SetItem(SetItem(xrepo.repo_data, "config_files",
                                                     r.config_files),
                                             "services", r.services)]
    /\ UNCHANGED notXrepo

\* lines 106-113
XSave ==
    /\ xrepo.pc = "save"
    /\ xrepo' = [xrepo EXCEPT !.pc = "returned",
                    !.file = [exists |-> TRUE, data |-> xrepo.repo_data]]
    /\ UNCHANGED notXrepo

NextExtractRepo ==
    XMetadata \/ XLanguages \/ XContributors \/ XReadme \/ XTechbragging \/ XConfigFiles
    \/ XSave

SpecExtractRepo == InitExtractRepo /\ [][NextExtractRepo]_vars

-----------------------------------------------------------------------------
(* Claims about the record written by extract_repo_data.                    *)

Written == xrepo.file.exists

ConfiguredVocabulary == Range(xrepo.config.analysis.services.keywords)

WorkflowsPresent == xrepo.source.workflows.kind = "list" /\ xrepo.source.workflows.len > 0

FoundFiles == find_config_files(xrepo.source.listing)

Evidence(s) ==
    \/ \E k \in 1..Len(FoundFiles) : FlagSetBy(FoundFiles[k], s)
    \/ s = S_github_actions /\ WorkflowsPresent

C18_OnlyFailedFieldIsEmpty ==
    Written =>
        LET d == xrepo.file.data
            src == xrepo.source
        IN /\ src.metadata.ok => d.metadata = src.metadata.value
           /\ d.languages = get_repository_languages(src.languages)
           /\ d.contributors = get_repository_contributors(src.contributors, xrepo.config)
           /\ d.readme = FirstContent(src.readme)
           /\ d.techbragging = FirstContent(src.techbragging)
           /\ d.config_files = find_config_files(src.listing)

C18_Observed ==
    /\ Written
    /\ ~HasServiceKeywords(xrepo.config)
    /\ xrepo.source.listing.ok /\ xrepo.source.listing.value # <<>>
    /\ xrepo.file.data.config_files = <<>>
    /\ xrepo.file.data.services = <<>>

-----------------------------------------------------------------------------
(* The summary functions: the summary of analyze_repositories and the      *)
(* README and tech-bragging summaries of the report generator               *)
(* (generate_reports.py 388-485).                                           *)

\* lines 427 and 475: three replace calls remove  #  *  and the grave accent
ReplaceMarkdown(s) == SelectSeq(s, LAMBDA c : c \notin {"#", "*", GraveAccent})

\* lines 415-433 and 463-481: the summary of a text read from the raw record
RawSummary(text) ==
    IF text = <<>> THEN <<>>
    ELSE Truncate(Strip(ReplaceMarkdown(FirstParagraph(Split(text, S_sep)))))

\* extract_readme_summary: the stored summary when the record has one, else
\* the summary of the readme of the raw record; "" when that cannot be read
extract_readme_summary(repo, raw_file) ==
    IF "summary" \in DOMAIN repo THEN repo.summary
    ELSE IF raw_file.ok THEN RawSummary(Get(raw_file.value, "readme", <<>>))
    ELSE <<>>

\* extract_techbragging_summary
extract_techbragging_summary(repo, raw_file) ==
    IF raw_file.ok THEN RawSummary(Get(raw_file.value, "techbragging", <<>>))
    ELSE <<>>

\* Inputs: texts made of blank-line-separated blocks.
MaxOver == 2                     \* paragraph lengths up to SummaryMax + MaxOver
LongLen == SummaryMax + 50       \* the long paragraph

S_h1 == <<"#"," ","D","e","m","o">>
S_h2 == <<"#","#"," ","I","n","s","t","a","l","l">>
MarkdownCycle == <<"*", "_", GraveAccent, "#">>

\* words separated by single spaces
Plain(n) == [i \in 1..n |-> IF i % 7 = 0 /\ i < n THEN " " ELSE "x"]
\* every fourth character is a markdown character
Emphasised(n) == [i \in 1..n |-> IF i % 4 = 1 THEN MarkdownCycle[((i \div 4) % 4) + 1] ELSE "y"]
\* white space at both ends
Padded(n) == <<" ">> \o Plain(n - 2) \o <<"\t">>

Paragraph(style, n) ==
    CASE style = "plain" -> Plain(n)
      [] style = "emphasised" -> Emphasised(n)
      [] style = "padded" -> Padded(n)

ParagraphStyles == {"plain", "emphasised", "padded"}
ParagraphLens == {3, LongLen} \cup ((SummaryMax - 1)..(SummaryMax + MaxOver))

Shape(k, p) ==
    CASE k = 1 -> p
      [] k = 2 -> S_h1 \o S_sep \o p
      [] k = 3 -> S_h1 \o S_sep \o S_h2 \o S_sep \o p
      [] k = 4 -> S_h1 \o <<"\n">> \o p
      [] k = 5 -> S_h1 \o <<"\n">> \o Plain(3) \o S_sep \o p
      [] k = 6 -> p \o S_sep \o S_h2

Texts ==
    {<<>>, S_h1}
    \cup {Shape(k, Paragraph(st, n)) : k \in 1..6, st \in ParagraphStyles, n \in ParagraphLens}

\* a raw record on disk, or an unreadable one
RawFiles ==
    {Failure} \cup {Answer([readme |-> t, techbragging |-> t]) : t \in Texts}

\* processed records: analyze_repositories always stores a summary; a record
\* from another source may lack it
ProcessedRecords ==
    {[org |-> "org", name |-> "repo"]}
    \cup {[org |-> "org", name |-> "repo", summary |-> extract_summary(Shape(k, Plain(LongLen)))] :
             k \in {1, 3}}

InitSummary ==
    /\ repo_data = <<>> /\ config = <<>> /\ pc = "idle"
    /\ maturity = DefaultMaturity /\ branch = "none" /\ tech_stack = <<>>
    /\ raw = <<>> /\ cursor = 0 /\ all_repos = <<>> /\ processed = NoProcessed
    /\ LaterIdle
    /\ scan = Idle /\ xrepo = Idle /\ top = Idle /\ run = Idle
    /\ \/ \E t \in Texts :
             summ = [pc |-> "call", fn |-> "analyze", repo |-> <<>>,
                     raw_file |-> Answer([readme |-> t]), result |-> <<>>]
       \/ \E f \in RawFiles, r \in ProcessedRecords, fn \in {"readme", "techbragging"} :
             summ = [pc |-> "call", fn |-> fn, repo |-> r, raw_file |-> f, result |-> <<>>]

notSumm == <<repo_data, config, pc, maturity, branch, tech_stack, raw, cursor, all_repos,
             processed, scan, xrepo, top, run, laterVars>>

\* analyze_repos.py 237-259
AnalyzeSummary ==
    /\ summ.pc = "call" /\ summ.fn = "analyze"
    /\ summ' = [summ EXCEPT !.pc = "returned",
                            !.result = extract_summary(Get(summ.raw_file.value, "readme", <<>>))]
    /\ UNCHANGED notSumm

\* generate_reports.py 388-437
ReadmeSummary ==
    /\ summ.pc = "call" /\ summ.fn = "readme"
    /\ summ' = [summ EXCEPT !.pc = "returned",
                            !.result = extract_readme_summary(summ.repo, summ.raw_file)]
    /\ UNCHANGED notSumm

\* generate_reports.py 440-485
TechbraggingSummary ==
    /\ summ.pc = "call" /\ summ.fn = "techbragging"
    /\ summ' = [summ EXCEPT !.pc = "returned",
                            !.result = extract_techbragging_summary(summ.repo, summ.raw_file)]
    /\ UNCHANGED notSumm

NextSummary == AnalyzeSummary \/ ReadmeSummary \/ TechbraggingSummary

SpecSummary == InitSummary /\ [][NextSummary]_vars

-----------------------------------------------------------------------------
(* Claims about the summaries.                                              *)

SummaryReturned == summ.pc = "returned"

\* the text the call reads
SourceText ==
    IF ~summ.raw_file.ok THEN <<>>
    ELSE IF summ.fn = "techbragging" THEN Get(summ.raw_file.value, "techbragging", <<>>)
    ELSE Get(summ.raw_file.value, "readme", <<>>)

Blocks == Split(SourceText, S_sep)

IsHeading(block) == StartsWith(block, <<"#">>)

\* C14: every summary returned, by analyze_repositories and by the two
\* functions of the report generator, has at most 200 characters, the
\* truncation marker included.
C14_SummaryAtMost200 ==
    SummaryReturned => Len(summ.result) <= SummaryMax

C14_Witness ==
    /\ SummaryReturned
    /\ summ.fn = "techbragging"
    /\ Len(Blocks[1]) > SummaryMax
    /\ Len(summ.result) = SummaryMax

HeadingThenLongParagraph ==
    /\ summ.fn = "analyze"
    /\ Len(Blocks) >= 2
    /\ IsHeading(Blocks[1])
    /\ Len(Blocks[2]) = LongLen

FirstKeptThenEllipsis(paragraph) == SubSeq(paragraph, 1, SummaryKeep) \o S_ellipsis

\* C15 as stated: a README whose first block is a heading and whose second
\* block has 250 characters gives a summary of exactly 200 characters, the
\* first 197 characters of that block followed by "...".
C15_LongParagraphTruncated ==
    (SummaryReturned /\ HeadingThenLongParagraph) =>
        /\ Len(summ.result) = SummaryMax
        /\ summ.result = FirstKeptThenEllipsis(Blocks[2])

PlainText(s) ==
    /\ \A i \in 1..Len(s) : s[i] \notin MarkdownChars
    /\ s # <<>> => (s[1] \notin WhitespaceChars /\ s[Len(s)] \notin WhitespaceChars)

\* C15 amended: the same, for a second block that holds none of the markdown
\* characters the cleanup removes and neither starts nor ends with white
\* space.
C15_LongPlainParagraphTruncated ==
    (SummaryReturned /\ HeadingThenLongParagraph /\ PlainText(Blocks[2])) =>
        /\ Len(summ.result) = SummaryMax
        /\ summ.result = FirstKeptThenEllipsis(Blocks[2])

C15_Witness ==
    /\ SummaryReturned
    /\ HeadingThenLongParagraph
    /\ PlainText(Blocks[2])
    /\ Len(summ.result) = SummaryMax
    /\ SubSeq(summ.result, SummaryKeep + 1, SummaryMax) = S_ellipsis

\* the first block that does not start with '#', "" when every block does
RECURSIVE FirstNonHeading(_)
FirstNonHeading(blocks) ==
    IF blocks = <<>> THEN <<>>
    ELSE IF IsHeading(Head(blocks)) THEN FirstNonHeading(Tail(blocks))
    ELSE Head(blocks)

\* the cleanup and truncation the called function applies to the chosen block
Derived(block) ==
    IF summ.fn = "analyze" THEN Truncate(Strip(StripMarkdown(block)))
    ELSE Truncate(Strip(ReplaceMarkdown(block)))

\* C16: the summary of a README is derived from the first block that does
\* not start with '#', never from a heading block.
C16_SummaryFromFirstNonHeading ==
    (SummaryReturned /\ summ.fn \in {"analyze", "readme"} /\ summ.raw_file.ok
        /\ "summary" \notin DOMAIN summ.repo) =>
        summ.result = Derived(FirstNonHeading(Blocks))

C16_Observed ==
    /\ SummaryReturned
    /\ summ.fn = "analyze"
    /\ Len(Blocks) = 3
    /\ IsHeading(Blocks[1]) /\ IsHeading(Blocks[2]) /\ ~IsHeading(Blocks[3])
    /\ summ.result = <<"I","n","s","t","a","l","l">>

-----------------------------------------------------------------------------
(* get_top_technologies (generate_reports.py 366-385).  The dict tech_counts *)
(* is a list of (tech, count) pairs in insertion order.                      *)

\* lines 380-383 for one tag
CountTech(tech_counts, tech) ==
    IF \E k \in 1..Len(tech_counts) : tech_counts[k].tech = tech
    THEN [k \in 1..Len(tech_counts) |->
             IF tech_counts[k].tech = tech
             THEN [tech |-> tech, count |-> tech_counts[k].count + 1]
             ELSE tech_counts[k]]
    ELSE Append(tech_counts, [tech |-> tech, count |-> 1])

\* lines 379-383 for the tech_stack of one repository
RECURSIVE CountStack(_, _)
CountStack(tech_counts, stack) ==
    IF stack = <<>> THEN tech_counts
    ELSE CountStack(CountTech(tech_counts, Head(stack)), Tail(stack))

InsertByCount_TiesFirst(sorted, item) ==
    LET before == SelectSeq(sorted, LAMBDA x : x.count > item.count)
        after == SelectSeq(sorted, LAMBDA x : x.count <= item.count)
    IN before \o <<item>> \o after

\* the place of one more item in a list sorted by count, highest first: after
\* every item whose count is not smaller (the sort is stable)
InsertByCount(sorted, item) ==
    LET before == SelectSeq(sorted, LAMBDA x : x.count >= item.count)
        after == SelectSeq(sorted, LAMBDA x : x.count < item.count)
    IN before \o <<item>> \o after

\* sorted(items, key=count, reverse=True)
RECURSIVE SortedByCount(_)
SortedByCount(items) ==
    IF items = <<>> THEN <<>>
    ELSE InsertByCount(SortedByCount(SubSeq(items, 1, Len(items) - 1)), items[Len(items)])

\* line 385
TopOf(tech_counts, top_n) == Take(SortedByCount(tech_counts), top_n)

\* Inputs
MaxTopRepos == 3     \* processed records
MaxTopN == 3         \* top_n

StackPool == {<<"a">>, <<"b">>, <<"c">>, <<"b", "a">>, <<"a", "b", "c">>}

TopRecords ==
    {[name |-> "repo"]} \cup {[name |-> "repo", tech_stack |-> s] : s \in StackPool}

TopRepositories == UNION {[1..n -> TopRecords] : n \in 0..MaxTopRepos}

InitTop ==
    /\ repo_data = <<>> /\ config = <<>> /\ pc = "idle"
    /\ maturity = DefaultMaturity /\ branch = "none" /\ tech_stack = <<>>
    /\ raw = <<>> /\ cursor = 0 /\ all_repos = <<>> /\ processed = NoProcessed
    /\ LaterIdle
    /\ scan = Idle /\ xrepo = Idle /\ summ = Idle /\ run = Idle
    /\ \E repositories \in TopRepositories, n \in 0..MaxTopN :
          top = [pc |-> "count", repositories |-> repositories, top_n |-> n,
                 tech_counts |-> <<>>, i |-> 0, result |-> <<>>]

notTop == <<repo_data, config, pc, maturity, branch, tech_stack, raw, cursor, all_repos,
            processed, scan, xrepo, summ, run, laterVars>>

\* one iteration of the loop of lines 378-383
CountRepo ==
    /\ top.pc = "count"
    /\ top.i < Len(top.repositories)
    /\ LET repo == top.repositories[top.i + 1]
       IN top' = [top EXCEPT !.i = top.i + 1,
                     !.tech_counts = CountStack(top.tech_counts, Get(repo, "tech_stack", <<>>))]
    /\ UNCHANGED notTop

\* line 385
SortAndReturn ==
    /\ top.pc = "count"
    /\ top.i = Len(top.repositories)
    /\ top' = [top EXCEPT !.pc = "returned", !.result = TopOf(top.tech_counts, top.top_n)]
    /\ UNCHANGED notTop

NextTop == CountRepo \/ SortAndReturn

SpecTop == InitTop /\ [][NextTop]_vars

-----------------------------------------------------------------------------
(* Claims about get_top_technologies.                                       *)

RECURSIVE Flatten(_)
Flatten(lists) == IF lists = <<>> THEN <<>> ELSE Head(lists) \o Flatten(Tail(lists))

\* every tag of every record, in the order of the scan
AllTags == Flatten([k \in 1..Len(top.repositories) |->
                       Get(top.repositories[k], "tech_stack", <<>>)])

Occurrences(tag) == Cardinality({k \in 1..Len(AllTags) : AllTags[k] = tag})

FirstSeen(tag) == CHOOSE k \in 1..Len(AllTags) :
                     AllTags[k] = tag /\ \A j \in 1..(k - 1) : AllTags[j] # tag

ReturnedTags == {top.result[k].tech : k \in 1..Len(top.result)}

\* C17: the result has at most n pairs of distinct tags, each with the number
\* of occurrences of the tag across all records, in order of non-increasing
\* count, tags of equal count in the order of their first occurrence; a tag
\* left out has no higher count than a returned one, and as many pairs are
\* returned as n and the number of tags allow.
C17_TopTechnologies ==
    top.pc = "returned" =>
        LET r == top.result
        IN /\ Len(r) <= top.top_n
           /\ Cardinality(ReturnedTags) = Len(r)
           /\ Len(r) = top.top_n \/ ReturnedTags = Range(AllTags)
           /\ \A k \in 1..Len(r) :
                 r[k].tech \in Range(AllTags) /\ r[k].count = Occurrences(r[k].tech)
           /\ \A j, k \in 1..Len(r) :
                 j < k => /\ r[j].count >= r[k].count
                          /\ r[j].count = r[k].count => FirstSeen(r[j].tech) < FirstSeen(r[k].tech)
           /\ \A t \in Range(AllTags) \ ReturnedTags : \A k \in 1..Len(r) :
                 /\ Occurrences(t) <= r[k].count
                 /\ Occurrences(t) = r[k].count => FirstSeen(r[k].tech) < FirstSeen(t)

\* counts a:3, b:3, c:1 with a seen first and n = 2: a then b
C17_Witness ==
    /\ top.pc = "returned"
    /\ top.top_n = 2
    /\ Occurrences("a") = 3 /\ Occurrences("b") = 3 /\ Occurrences("c") = 1
    /\ FirstSeen("a") < FirstSeen("b")
    /\ top.result = <<[tech |-> "a", count |-> 3], [tech |-> "b", count |-> 3]>>

-----------------------------------------------------------------------------
(* One run of a pipeline stage: main() of extract_data.py, analyze_repos.py, *)
(* generate_reports.py and collect_screenshots.py.  The run is followed by   *)
(* its control flow and its effects: directories created, files written,     *)
(* calls to the data source.  What a request or a read gives is chosen when   *)
(* the step is taken.                                                         *)

MaxOrgs == 2       \* organizations in the configuration
MaxListed == 2     \* repositories listed for one organization

Stages == {"extract", "analyze", "reports", "screenshots"}

\* the configuration file: absent, not parseable as YAML, empty (parses to
\* None), or a mapping with the expected sections
ConfigFiles == {"missing", "unparseable", "empty", "valid"}

OrgNames == <<"org1", "org2", "org3", "org4">>

load_config_MissingTolerated(config_file) ==
    IF config_file = "unparseable" THEN "raised" ELSE "returned"

\* utils/config.py load_config: FileNotFoundError for a missing file,
\* YAMLError for an unparseable one, else the parsed content
load_config(config_file) ==
    IF config_file \in {"missing", "unparseable"} THEN "raised" ELSE "returned"

\* get_output_paths: the five directories of config['output']
OutputDirs == {<<"base">>, <<"cto_report">>, <<"portfolio">>, <<"visuals">>, <<"data">>}

AfterFailure_Raise(loop) == "error"

\* extract_data.py 149-152, analyze_repos.py 199-201 and 210-211: the failure
\* is caught or tested inside the loop, which goes on with its next element
AfterFailure(loop) == loop

InitStages ==
    /\ repo_data = <<>> /\ config = <<>> /\ pc = "idle"
    /\ maturity = DefaultMaturity /\ branch = "none" /\ tech_stack = <<>>
    /\ raw = <<>> /\ cursor = 0 /\ all_repos = <<>> /\ processed = NoProcessed
    /\ LaterIdle
    /\ scan = Idle /\ xrepo = Idle /\ summ = Idle /\ top = Idle
    /\ \E stage \in Stages, config_file \in ConfigFiles, n \in 0..MaxOrgs :
          /\ config_file # "valid" => n = 0
          /\ run = [pc |-> "start", stage |-> stage, config_file |-> config_file,
                    orgs |-> SubSeq(OrgNames, 1, n), raised_in |-> "",
                    returned |-> FALSE, org_i |-> 0, repos |-> 0, repo_i |-> 0,
                    dirs |-> {}, files |-> {}, calls |-> 0,
                    visited |-> <<>>, listed |-> <<>>, attempted |-> <<>>,
                    failed |-> <<>>, collected |-> 0, pdf |-> "not run"]

notRun == <<repo_data, config, pc, maturity, branch, tech_stack, raw, cursor, all_repos,
            processed, scan, xrepo, summ, top, laterVars>>

Raise(r, where) == [r EXCEPT !.pc = "error", !.raised_in = where]

\* after a failure inside a loop: the loop goes on, or the exception leaves it
Resume(r, loop) ==
    IF AfterFailure(loop) = "error" THEN Raise(r, loop) ELSE [r EXCEPT !.pc = AfterFailure(loop)]

\* main(): config = load_config(args.config), the first statement after the
\* arguments are parsed
LoadConfig ==
    /\ run.pc = "start"
    /\ run' = IF load_config(run.config_file) = "raised"
              THEN Raise(run, "load_config")
              ELSE [run EXCEPT !.pc = "create_output_dirs"]
    /\ UNCHANGED notRun

\* create_output_dirs (utils/config.py 70-79), the first statement of every
\* stage after load_config; get_output_paths raises on a configuration that
\* is not a mapping
CreateOutputDirs ==
    /\ run.pc = "create_output_dirs"
    /\ run' = IF run.config_file # "valid"
              THEN Raise(run, "get_output_paths")
              ELSE [run EXCEPT !.dirs = run.dirs \cup OutputDirs,
                               !.pc = CASE run.stage \in {"extract", "analyze"} -> "workdir"
                                        [] run.stage = "reports" -> "templates"
                                        [] run.stage = "screenshots" -> "screenshots"]
    /\ UNCHANGED notRun

\* extract_data.py 125-126 (data/raw), analyze_repos.py 184-188 (data/processed)
MakeWorkDir ==
    /\ run.pc = "workdir"
    /\ run' = [run EXCEPT !.pc = "orgs",
                  !.dirs = run.dirs \cup {IF run.stage = "extract" THEN <<"data", "raw">>
                                          ELSE <<"data", "processed">>}]
    /\ UNCHANGED notRun

ListedPairs(org, k) == [r \in 1..k |-> <<org, r>>]

\* extract_data.py 129-141 and 151-152: the organization directory, the
\* listing request, repos.json
RunExtractOrg ==
    /\ run.pc = "orgs" /\ run.stage = "extract"
    /\ run.org_i < Len(run.orgs)
    /\ LET org == run.orgs[run.org_i + 1]
           r == [run EXCEPT !.dirs = run.dirs \cup {<<"data", "raw", org>>},
                            !.calls = run.calls + 1,
                            !.visited = Append(run.visited, org)]
       IN \/ run' = Resume([r EXCEPT !.org_i = run.org_i + 1,
                                     !.failed = Append(run.failed, <<org>>)], "orgs")
          \/ \E k \in 0..MaxListed :
                run' = [r EXCEPT !.pc = "repos", !.repos = k, !.repo_i = 0,
                           !.files = run.files \cup {<<org, "repos.json">>},
                           !.listed = run.listed \o ListedPairs(org, k)]
    /\ UNCHANGED notRun

\* extract_data.py 143-150: extract_repo_data for the next listed repository
RunExtractRepo ==
    /\ run.pc = "repos" /\ run.stage = "extract"
    /\ run.repo_i < run.repos
    /\ LET org == run.orgs[run.org_i + 1]
           k == run.repo_i + 1
           r == [run EXCEPT !.repo_i = k, !.calls = run.calls + 1,
                            !.attempted = Append(run.attempted, <<org, k>>)]
       IN \/ run' = [r EXCEPT !.files = run.files \cup {<<org, k, "repo_data.json">>}]
          \/ run' = Resume([r EXCEPT !.failed = Append(run.failed, <<org, k>>)], "repos")
    /\ UNCHANGED notRun

\* the inner loop is over: next organization
RunEndRepos ==
    /\ run.pc = "repos"
    /\ run.repo_i = run.repos
    /\ run' = [run EXCEPT !.pc = "orgs", !.org_i = run.org_i + 1]
    /\ UNCHANGED notRun

\* extract_data_for_organizations returns, main() ends (lines 161-162)
RunExtractDone ==
    /\ run.pc = "orgs" /\ run.stage = "extract"
    /\ run.org_i = Len(run.orgs)
    /\ run' = [run EXCEPT !.pc = "done", !.returned = TRUE]
    /\ UNCHANGED notRun

\* analyze_repos.py 191-201: repos.json of the next organization is read
RunAnalyzeOrg ==
    /\ run.pc = "orgs" /\ run.stage = "analyze"
    /\ run.org_i < Len(run.orgs)
    /\ LET org == run.orgs[run.org_i + 1]
           r == [run EXCEPT !.visited = Append(run.visited, org)]
       IN \/ run' = Resume([r EXCEPT !.org_i = run.org_i + 1,
                                     !.failed = Append(run.failed, <<org>>)], "orgs")
          \/ \E k \in 0..MaxListed :
                run' = [r EXCEPT !.pc = "repos", !.repos = k, !.repo_i = 0,
                           !.listed = run.listed \o ListedPairs(org, k)]
    /\ UNCHANGED notRun

\* analyze_repos.py 204-262: load_repo_data for the next listed repository;
\* an unreadable record is skipped, a readable one is analysed and collected
RunAnalyzeRepo ==
    /\ run.pc = "repos" /\ run.stage = "analyze"
    /\ run.repo_i < run.repos
    /\ LET org == run.orgs[run.org_i + 1]
           k == run.repo_i + 1
           r == [run EXCEPT !.repo_i = k,
                            !.attempted = Append(run.attempted, <<org, k>>)]
       IN \/ run' = [r EXCEPT !.collected = run.collected + 1]
          \/ run' = Resume([r EXCEPT !.failed = Append(run.failed, <<org, k>>)], "repos")
    /\ UNCHANGED notRun

\* analyze_repos.py 264-274: both files are written, analyze_repositories returns
RunAnalyzePersist ==
    /\ run.pc = "orgs" /\ run.stage = "analyze"
    /\ run.org_i = Len(run.orgs)
    /\ run' = [run EXCEPT !.pc = "visualize", !.returned = TRUE,
                  !.files = run.files \cup {<<"repositories.csv">>, <<"repositories.json">>}]
    /\ UNCHANGED notRun

\* generate_visualizations (analyze_repos.py 277-308).  With no collected
\* record the data frame has no column and create_repo_timeline raises
\* KeyError at its sort by 'createdAt' (utils/visualization.py 178).
RunVisualize ==
    /\ run.pc = "visualize"
    /\ run' = IF run.collected = 0
              THEN Raise(run, "create_repo_timeline")
              ELSE [run EXCEPT !.pc = "done",
                               !.files = run.files \cup {<<"repo_timeline.png">>}]
    /\ UNCHANGED notRun

\* generate_reports.py 647: create_template_dirs
RunTemplates ==
    /\ run.pc = "templates"
    /\ run' = [run EXCEPT !.pc = "load_processed",
                  !.dirs = run.dirs \cup {<<"templates">>},
                  !.files = run.files \cup {<<"templates", "cto_report.html">>,
                                            <<"templates", "portfolio_index.html">>,
                                            <<"templates", "portfolio_project.html">>}]
    /\ UNCHANGED notRun

\* generate_reports.py 650-654: without records the stage ends here
RunLoadProcessed ==
    /\ run.pc = "load_processed"
    /\ \/ run' = [run EXCEPT !.pc = "done"]
       \/ run' = [run EXCEPT !.pc = "cto_report"]
    /\ UNCHANGED notRun

\* generate_reports.py 496-551: the report directory, cto_report.json,
\* cto_report.html and the copies of the charts
RunCtoReport ==
    /\ run.pc = "cto_report"
    /\ run' = [run EXCEPT !.pc = "pdf",
                  !.files = run.files \cup {<<"cto_report", "cto_report.json">>,
                                            <<"cto_report", "cto_report.html">>}]
    /\ UNCHANGED notRun

AfterConversion_Raise(outcome) == IF outcome = "converted" THEN "portfolio" ELSE "error"

\* generate_reports.py 554-564: every exception of the conversion is caught,
\* generate_cto_report returns and main() goes on with the portfolio
AfterConversion(outcome) == "portfolio"

\* generate_reports.py 553-564: wkhtmltopdf is run; it may be missing or fail
RunPdfConversion ==
    /\ run.pc = "pdf"
    /\ \E outcome \in {"converted", "missing", "failed"} :
          LET r == [run EXCEPT !.pdf = outcome,
                       !.files = IF outcome = "converted"
                                 THEN run.files \cup {<<"cto_report", "cto_report.pdf">>}
                                 ELSE run.files]
          IN run' = IF AfterConversion(outcome) = "error" THEN Raise(r, "wkhtmltopdf")
                    ELSE [r EXCEPT !.pc = AfterConversion(outcome)]
    /\ UNCHANGED notRun

\* generate_reports.py 662: generate_portfolio
RunPortfolio ==
    /\ run.pc = "portfolio"
    /\ run' = [run EXCEPT !.pc = "done",
                  !.dirs = run.dirs \cup {<<"portfolio", "screenshots">>},
                  !.files = run.files \cup {<<"portfolio", "portfolio.json">>,
                                            <<"portfolio", "index.html">>}]
    /\ UNCHANGED notRun

\* collect_screenshots.py 114-137: disabled, or the processed records cannot
\* be read, or none has a homepage: the stage ends; else the pages are loaded
RunScreenshotsStart ==
    /\ run.pc = "screenshots"
    /\ \/ run' = [run EXCEPT !.pc = "done"]
       \/ \E next \in {"done", "capture"} :
             run' = [run EXCEPT !.pc = next,
                        !.dirs = run.dirs \cup {<<"visuals", "screenshots">>}]
    /\ UNCHANGED notRun

\* collect_screenshots.py 141-168: the pages are requested and the processed
\* records are written back
RunCapture ==
    /\ run.pc = "capture"
    /\ run' = [run EXCEPT !.pc = "done", !.calls = run.calls + 1,
                  !.files = run.files \cup {<<"repositories.json">>}]
    /\ UNCHANGED notRun

NextStages ==
    \/ LoadConfig \/ CreateOutputDirs \/ MakeWorkDir
    \/ RunExtractOrg \/ RunExtractRepo \/ RunEndRepos \/ RunExtractDone
    \/ RunAnalyzeOrg \/ RunAnalyzeRepo \/ RunAnalyzePersist \/ RunVisualize
    \/ RunTemplates \/ RunLoadProcessed \/ RunCtoReport \/ RunPdfConversion \/ RunPortfolio
    \/ RunScreenshotsStart \/ RunCapture

SpecStages == InitStages /\ [][NextStages]_vars

-----------------------------------------------------------------------------
(* Claims about the runs.                                                   *)

InLoops == run.pc \in {"orgs", "repos"}

C20_BadConfigurationIsFatal ==
    run.config_file # "valid" =>
        /\ run.dirs = {} /\ run.files = {} /\ run.calls = 0
        /\ run.pc \in {"start", "create_output_dirs", "error"}
        /\ run.config_file \in {"missing", "unparseable"} => run.pc \in {"start", "error"}
        /\ run.pc # "error" => ENABLED NextStages

C20_Witness ==
    /\ run.stage = "reports"
    /\ run.config_file = "missing"
    /\ run.pc = "error"
    /\ run.raised_in = "load_config"
    /\ run.dirs = {} /\ run.files = {} /\ run.calls = 0

CtoReportFiles == {<<"cto_report", "cto_report.json">>, <<"cto_report", "cto_report.html">>}

\* C21: a PDF conversion that cannot run or fails is not fatal: no exception
\* leaves the conversion, the JSON and HTML reports written before it stay,
\* and the stage goes on to generate the portfolio and ends normally.
C21_PdfFailureIsNotFatal ==
    (run.stage = "reports" /\ run.pdf \in {"missing", "failed"}) =>
        /\ run.pc \in {"portfolio", "done"}
        /\ CtoReportFiles \subseteq run.files
        /\ run.pc = "portfolio" => ENABLED RunPortfolio
        /\ run.pc = "done" => <<"portfolio", "index.html">> \in run.files

C21_Witness ==
    /\ run.stage = "reports"
    /\ run.pdf = "missing"
    /\ run.pc = "done"
    /\ CtoReportFiles \subseteq run.files
    /\ <<"cto_report", "cto_report.pdf">> \notin run.files
    /\ <<"portfolio", "index.html">> \in run.files

-----------------------------------------------------------------------------
(* Pipeline runs over one disk: an extract run followed by an analyze run,  *)
(* then the same again.  data/raw is never emptied: repos.json and           *)
(* repo_data.json are only ever overwritten (extract_data.py 139-140 and     *)
(* 110-111).  Every file carries the number of the run that wrote it.        *)

\* the earlier components at rest
baseVars == <<repo_data, config, pc, maturity, branch, tech_stack, raw, cursor, all_repos,
              processed, scan, xrepo, summ, top, run>>
BaseIdle ==
    /\ repo_data = <<>> /\ config = <<>> /\ pc = "idle"
    /\ maturity = DefaultMaturity /\ branch = "none" /\ tech_stack = <<>>
    /\ raw = <<>> /\ cursor = 0 /\ all_repos = <<>> /\ processed = NoProcessed
    /\ scan = Idle /\ xrepo = Idle /\ summ = Idle /\ top = Idle /\ run = Idle

MaxRuns == 2        \* pipeline runs
MaxPipeOrgs == 1    \* organizations in the configuration
MaxPipeRepos == 2   \* repositories the data source may list

PipeOrgs == 1..MaxPipeOrgs
PipeRepos == 1..MaxPipeRepos

\* what the data source may list for an organization
PipeListings == {SubSeq([r \in PipeRepos |-> r], 1, n) : n \in 0..MaxPipeRepos}

NoFile == [gen |-> 0, repos |-> <<>>]

InitPipeline ==
    /\ BaseIdle
    /\ site = Idle /\ shots = Idle /\ lrepos = Idle /\ finder = Idle
    /\ pipe = [pc |-> "extract_orgs", gen |-> 1, org_i |-> 0, queue |-> <<>>,
               listing_gen |-> 0,
               repos_json |-> [o \in PipeOrgs |-> NoFile],
               repo_data_json |-> [o \in PipeOrgs |-> [r \in PipeRepos |-> 0]],
               all_repos |-> <<>>, repositories_json |-> <<>>]

notPipe == <<baseVars, site, shots, lrepos, finder>>

\* extract_data.py 129-141, 151-152: the listing fails and repos.json stays as
\* it was, or the listing is written over repos.json
PipeExtractOrg ==
    /\ pipe.pc = "extract_orgs"
    /\ pipe.org_i < MaxPipeOrgs
    /\ LET o == pipe.org_i + 1
       IN \/ pipe' = [pipe EXCEPT !.org_i = o]
          \/ \E repos \in PipeListings :
                pipe' = [pipe EXCEPT !.pc = "extract_repos", !.queue = repos,
                            !.repos_json[o] = [gen |-> pipe.gen, repos |-> repos]]
    /\ UNCHANGED notPipe

\* extract_data.py 143-150: extract_repo_data writes repo_data.json, or
\* raises before the file is written and the old file stays
PipeExtractRepo ==
    /\ pipe.pc = "extract_repos"
    /\ pipe.queue # <<>>
    /\ LET o == pipe.org_i + 1
           r == Head(pipe.queue)
       IN \/ pipe' = [pipe EXCEPT !.queue = Tail(pipe.queue),
                         !.repo_data_json[o][r] = pipe.gen]
          \/ pipe' = [pipe EXCEPT !.queue = Tail(pipe.queue)]
    /\ UNCHANGED notPipe

PipeExtractEndRepos ==
    /\ pipe.pc = "extract_repos"
    /\ pipe.queue = <<>>
    /\ pipe' = [pipe EXCEPT !.pc = "extract_orgs", !.org_i = pipe.org_i + 1]
    /\ UNCHANGED notPipe

\* the extract run is over; the analyze run starts (analyze_repos.py 184-188)
PipeStartAnalyze ==
    /\ pipe.pc = "extract_orgs"
    /\ pipe.org_i = MaxPipeOrgs
    /\ pipe' = [pipe EXCEPT !.pc = "analyze_orgs", !.org_i = 0, !.all_repos = <<>>]
    /\ UNCHANGED notPipe

\* analyze_repos.py 191-201: repos.json is read; a missing file skips the
\* organization
PipeAnalyzeOrg ==
    /\ pipe.pc = "analyze_orgs"
    /\ pipe.org_i < MaxPipeOrgs
    /\ LET o == pipe.org_i + 1
       IN pipe' = IF pipe.repos_json[o].gen = 0
                  THEN [pipe EXCEPT !.org_i = o]
                  ELSE [pipe EXCEPT !.pc = "analyze_repos",
                                    !.queue = pipe.repos_json[o].repos,
                                    !.listing_gen = pipe.repos_json[o].gen]
    /\ UNCHANGED notPipe

\* analyze_repos.py 204-262: load_repo_data; a missing record is skipped, a
\* record found is analysed and collected
PipeAnalyzeRepo ==
    /\ pipe.pc = "analyze_repos"
    /\ pipe.queue # <<>>
    /\ LET o == pipe.org_i + 1
           r == Head(pipe.queue)
           g == pipe.repo_data_json[o][r]
       IN pipe' = IF g = 0
                  THEN [pipe EXCEPT !.queue = Tail(pipe.queue)]
                  ELSE [pipe EXCEPT !.queue = Tail(pipe.queue),
                           !.all_repos = Append(pipe.all_repos,
                                            [org |-> o, name |-> r,
                                             listed_in |-> pipe.listing_gen,
                                             raw_of |-> g])]
    /\ UNCHANGED notPipe

PipeAnalyzeEndRepos ==
    /\ pipe.pc = "analyze_repos"
    /\ pipe.queue = <<>>
    /\ pipe' = [pipe EXCEPT !.pc = "analyze_orgs", !.org_i = pipe.org_i + 1]
    /\ UNCHANGED notPipe

\* analyze_repos.py 264-274: the collection is persisted
PipePersist ==
    /\ pipe.pc = "analyze_orgs"
    /\ pipe.org_i = MaxPipeOrgs
    /\ pipe' = [pipe EXCEPT !.pc = "analyzed", !.repositories_json = pipe.all_repos]
    /\ UNCHANGED notPipe

\* the pipeline is run again
PipeNextRun ==
    /\ pipe.pc = "analyzed"
    /\ pipe.gen < MaxRuns
    /\ pipe' = [pipe EXCEPT !.pc = "extract_orgs", !.gen = pipe.gen + 1, !.org_i = 0]
    /\ UNCHANGED notPipe

NextPipeline ==
    \/ PipeExtractOrg \/ PipeExtractRepo \/ PipeExtractEndRepos \/ PipeStartAnalyze
    \/ PipeAnalyzeOrg \/ PipeAnalyzeRepo \/ PipeAnalyzeEndRepos \/ PipePersist
    \/ PipeNextRun

SpecPipeline == InitPipeline /\ [][NextPipeline]_vars

-----------------------------------------------------------------------------
(* Claims about the pipeline runs.                                          *)

\* C22: after an extract run followed by an analyze run, every record of the
\* processed dataset comes from a repository list and a raw record written
\* by that extract run.
C22_RecordsAreFreshEachRun ==
    pipe.pc = "analyzed" =>
        \A k \in 1..Len(pipe.repositories_json) :
            /\ pipe.repositories_json[k].listed_in = pipe.gen
            /\ pipe.repositories_json[k].raw_of = pipe.gen

\* the second run could not list the organization and its dataset holds the
\* records of the first run
C22_Observed ==
    /\ pipe.pc = "analyzed"
    /\ pipe.gen = 2
    /\ pipe.repos_json[1].gen = 1
    /\ pipe.repositories_json # <<>>
    /\ pipe.repositories_json[1].raw_of = 1

-----------------------------------------------------------------------------
(* generate_portfolio (generate_reports.py 567-637): the qualifying records *)
(* become projects, the index is written, then one page per project under   *)
(* the file name made from the project's name.                               *)

PortfolioMinSummary == 10

\* line 603: a summary longer than 10 characters, or a homepage
Qualifies(repo) ==
    Len(Get(repo, "summary", <<>>)) > PortfolioMinSummary \/ Get(repo, "homepage", <<>>) # <<>>

\* str.replace(" ", "_")
SpacesToUnderscores(s) == [i \in 1..Len(s) |-> IF s[i] = " " THEN "_" ELSE s[i]]

\* lines 635-636: the lowercased name with spaces replaced, plus ".html"
project_filename(project) ==
    SpacesToUnderscores(Lower(project.name)) \o <<".","h","t","m","l">>

\* lines 604-612: the project of a record; rendered keeps which record the
\* page written from it shows
ProjectOf(repo, k) ==
    [name |-> repo.name,
     homepage |-> Get(repo, "homepage", <<>>),
     summary |-> Get(repo, "summary", <<>>), record |-> k]

\* Inputs: processed records, no two with the same organization and name.
MaxSiteRepos == 2

S_app == <<"a","p","p">>
S_App == <<"A","p","p">>
S_my_app == <<"m","y","_","a","p","p">>
S_my_space_app == <<"m","y"," ","a","p","p">>
S_short == <<"t","i","n","y">>
S_long == <<"a"," ","l","o","n","g","e","r"," ","s","u","m","m","a","r","y">>
S_url == <<"h","t","t","p",":","/","/","x">>

SiteRecord(org, name, summary, homepage) ==
    [org |-> <<org>>, name |-> name, summary |-> summary, homepage |-> homepage]

SitePool == {SiteRecord("a", S_app, S_long, <<>>), SiteRecord("b", S_app, S_short, S_url),
             SiteRecord("b", S_App, S_long, S_url), SiteRecord("a", S_my_app, S_long, <<>>),
             SiteRecord("a", S_my_space_app, S_short, S_url),
             SiteRecord("b", S_my_app, S_short, <<>>),
             [org |-> <<"a">>, name |-> <<"l","i","b">>]}

SiteRepositories ==
    {rs \in UNION {[1..n -> SitePool] : n \in 0..MaxSiteRepos} :
        \A j, k \in 1..Len(rs) : j # k => rs[j] # rs[k]}

InitPortfolio ==
    /\ BaseIdle
    /\ pipe = Idle /\ shots = Idle /\ lrepos = Idle /\ finder = Idle
    /\ \E rs \in SiteRepositories :
          site = [pc |-> "select", repositories |-> rs, i |-> 0, projects |-> <<>>,
                  index |-> <<>>, written |-> FALSE, pages |-> <<>>]

notSite == <<baseVars, pipe, shots, lrepos, finder>>

\* one iteration of the loop of lines 601-612
SelectProject ==
    /\ site.pc = "select"
    /\ site.i < Len(site.repositories)
    /\ LET k == site.i + 1
           repo == site.repositories[k]
       IN site' = [site EXCEPT !.i = k,
                      !.projects = IF Qualifies(repo)
                                   THEN Append(site.projects, ProjectOf(repo, k))
                                   ELSE site.projects]
    /\ UNCHANGED notSite

\* lines 614-628: portfolio.json and index.html
WriteIndex ==
    /\ site.pc = "select"
    /\ site.i = Len(site.repositories)
    /\ site' = [site EXCEPT !.pc = "pages", !.i = 0, !.written = TRUE,
                   !.index = [k \in 1..Len(site.projects) |-> site.projects[k].record]]
    /\ UNCHANGED notSite

\* one iteration of the loop of lines 632-637: the page is written, over a
\* page of the same file name if there is one
WritePage ==
    /\ site.pc = "pages"
    /\ site.i < Len(site.projects)
    /\ LET project == site.projects[site.i + 1]
       IN site' = [site EXCEPT !.i = site.i + 1,
                      !.pages = SetItem(site.pages, project_filename(project), project.record)]
    /\ UNCHANGED notSite

PortfolioDone ==
    /\ site.pc = "pages"
    /\ site.i = Len(site.projects)
    /\ site' = [site EXCEPT !.pc = "returned"]
    /\ UNCHANGED notSite

NextPortfolio == SelectProject \/ WriteIndex \/ WritePage \/ PortfolioDone

SpecPortfolio == InitPortfolio /\ [][NextPortfolio]_vars

-----------------------------------------------------------------------------
(* Claims about the portfolio.                                              *)

QualifyingRecords == {k \in 1..Len(site.repositories) : Qualifies(site.repositories[k])}

\* C23: after generate_portfolio there are as many project pages as
\* qualifying records, and the page named after a qualifying record shows
\* that record.
C23_OnePagePerQualifyingRepository ==
    site.pc = "returned" =>
        /\ Cardinality(DOMAIN site.pages) = Cardinality(QualifyingRecords)
        /\ \A k \in QualifyingRecords :
              LET f == project_filename(ProjectOf(site.repositories[k], k))
              IN f \in DOMAIN site.pages /\ site.pages[f] = k

\* two qualifying records of two organizations share the name app: one page
C23_Observed ==
    /\ site.pc = "returned"
    /\ Cardinality(QualifyingRecords) = 2
    /\ site.repositories[1].name = S_app /\ site.repositories[2].name = S_app
    /\ Cardinality(DOMAIN site.pages) = 1
    /\ site.pages[<<"a","p","p",".","h","t","m","l">>] = 2

-----------------------------------------------------------------------------
(* analyze_repositories, lines 264-274: the two files of data/processed.   *)
(* all_repos is the in-memory list, named by repository; processed holds   *)
(* the run number and the content of repositories.csv and                  *)
(* repositories.json. pc is the position in the function.                  *)

MaxPersistRuns == 2     \* runs of the analyze stage
MaxPersistRepos == 2    \* records of one run

PersistRepos == 1..MaxPersistRepos

\* the lists of records a run may have collected: no repository twice
PersistCollections ==
    {<<>>} \cup {<<r>> : r \in PersistRepos}
           \cup {<<p[1], p[2]>> : p \in {q \in PersistRepos \X PersistRepos : q[1] # q[2]}}

\* a file that does not exist
Absent == [run |-> 0, records |-> <<>>, whole |-> FALSE]

\* the content of a file written completely from the list
WholeFile(n, records) == [run |-> n, records |-> records, whole |-> TRUE]

\* the content of a file whose writing was interrupted after k records
PartFile(n, records, k) == [run |-> n, records |-> SubSeq(records, 1, k), whole |-> FALSE]

\* what is left of a file by a write in mode 'w': the file is opened, which
\* empties it, and filled record by record; the write can fail before the
\* file is opened, or after k records
WriteOutcomes(old, n, records) ==
    {[ok |-> TRUE, file |-> WholeFile(n, records)], [ok |-> FALSE, file |-> old]}
    \cup {[ok |-> FALSE, file |-> PartFile(n, records, k)] :
            k \in 0..(IF records = <<>> THEN 0 ELSE Len(records) - 1)}

InitPersist ==
    /\ repo_data = <<>> /\ config = <<>>
    /\ maturity = DefaultMaturity /\ branch = "none" /\ tech_stack = <<>>
    /\ raw = <<>> /\ cursor = 0
    /\ OthersIdle
    /\ pc = "to_csv"
    /\ all_repos \in PersistCollections
    /\ processed = [run |-> 1, csv |-> Absent, json |-> Absent]

notPersist == <<repo_data, config, maturity, branch, tech_stack, raw, cursor, otherVars>>

\* line 268: df.to_csv(...); an exception ends the run
SaveCsv ==
    /\ pc = "to_csv"
    /\ \E o \in WriteOutcomes(processed.csv, processed.run, all_repos) :
          /\ processed' = [processed EXCEPT !.csv = o.file]
          /\ pc' = IF o.ok THEN "json_dump" ELSE "failed"
    /\ UNCHANGED <<all_repos, notPersist>>

\* lines 271-272: open(..., 'w') and json.dump(all_repos, f)
SaveJson ==
    /\ pc = "json_dump"
    /\ \E o \in WriteOutcomes(processed.json, processed.run, all_repos) :
          /\ processed' = [processed EXCEPT !.json = o.file]
          /\ pc' = IF o.ok THEN "saved" ELSE "failed"
    /\ UNCHANGED <<all_repos, notPersist>>

\* the stage is run again, on what extraction left this time
PersistNextRun ==
    /\ pc \in {"saved", "failed"}
    /\ processed.run < MaxPersistRuns
    /\ all_repos' \in PersistCollections
    /\ processed' = [processed EXCEPT !.run = @ + 1]
    /\ pc' = "to_csv"
    /\ UNCHANGED notPersist

NextPersist == SaveCsv \/ SaveJson \/ PersistNextRun

SpecPersist == InitPersist /\ [][NextPersist]_vars

-----------------------------------------------------------------------------
(* Claims on the two files, checked under SpecPersist.                     *)

\* the stage is not running: it returned or it raised
PersistEnded == pc \in {"saved", "failed"}

BothObserved == processed.csv # Absent /\ processed.json # Absent

\* C25: whenever repositories.csv and repositories.json both exist after a
\* run, complete or failed, they hold the same records from the same run and
\* neither is partially written.
C25_FilesAgreeAfterEveryRun ==
    (PersistEnded /\ BothObserved) =>
        /\ processed.csv.run = processed.json.run
        /\ processed.csv.records = processed.json.records
        /\ processed.csv.whole /\ processed.json.whole

\* a failed second run: the CSV is of this run, the JSON of the run before
C25_Observed ==
    /\ pc = "failed"
    /\ processed.run = 2
    /\ processed.csv = WholeFile(2, all_repos)
    /\ processed.json.run = 1 /\ processed.json.whole
    /\ processed.json.records # processed.csv.records

-----------------------------------------------------------------------------
(* The documentation signals of estimate_project_maturity, checked under    *)
(* SpecMaturity.                                                             *)

\* the paths of the record's config files, as extraction stored them
StoredPaths ==
    LET config_files == Get(repo_data, "config_files", <<>>)
    IN  {Get(config_files[i], "path", <<>>) : i \in 1..Len(config_files)}

\* some config path equals name, letter case aside
SomePathEquals(name) == \E p \in StoredPaths : Lower(p) = Lower(name)

ReadmeMentions(word) == Contains(word, readme_lower(repo_data))

\* C27: has_contributing is true exactly when the README contains
\* "contributing" or some config path equals "CONTRIBUTING.md" letter case
\* aside, and has_changelog likewise for "changelog" and "CHANGELOG.md".
C27_DocumentationSignals ==
    Returned =>
        /\ has_contributing(repo_data) <=>
              (ReadmeMentions(S_contributing) \/ SomePathEquals(S_CONTRIBUTING_md))
        /\ has_changelog(repo_data) <=>
              (ReadmeMentions(S_changelog) \/ SomePathEquals(S_CHANGELOG_md))

\* a record with CONTRIBUTING.md among its config paths and every other
\* signal of a production-ready project is rated Beta
C27_Observed ==
    /\ Returned
    /\ SomePathEquals(S_CONTRIBUTING_md)
    /\ ~ReadmeMentions(S_contributing)
    /\ ~has_contributing(repo_data)
    /\ has_changelog(repo_data)
    /\ deploy_files(repo_data) # <<>> /\ test_files(repo_data) # <<>>
    /\ cicd_files(repo_data) # <<>> /\ has_version(repo_data)
    /\ has_monitoring(repo_data) /\ has_security(repo_data)
    /\ maturity = "Beta"

-----------------------------------------------------------------------------
(* utils/github.py, list_repositories: the listing of the data source and  *)
(* the include and exclude filters of the configuration. lrepos holds the  *)
(* call: the filter section, the answer of gh, the list being filtered.    *)

MaxListing == 2     \* repositories in the answer of gh repo list
MaxFilter == 1      \* names in the include list and in the exclude list

RepoNames == {"api", "web", "docs"}

\* the answers of gh: lists of repository objects, no name twice
GhListings ==
    UNION {{l \in [1..n -> [name : RepoNames]] :
              \A i, j \in 1..n : l[i].name = l[j].name => i = j} : n \in 0..MaxListing}

\* run_gh_cmd, lines 37-40: output that is not JSON comes back as a dict
\* instead of a list; is_list tells the two apart
TextOutput == <<>>

NameLists == UNION {[1..n -> RepoNames] : n \in 0..MaxFilter}

\* config['repository_filter']: every key is optional
RepositoryFilters ==
    {[use_include_list |-> u, include_list |-> inc, exclude_list |-> exc] :
        u \in BOOLEAN, inc \in NameLists, exc \in NameLists}
    \cup {[include_list |-> inc] : inc \in NameLists}
    \cup {<<>>}

use_include_list(filter) == Get(filter, "use_include_list", FALSE)
include_list(filter) == Get(filter, "include_list", <<>>)
exclude_list(filter) == Get(filter, "exclude_list", <<>>)

\* lines 70-72
ApplyIncludeList(repos, filter) ==
    IF use_include_list(filter)
    THEN SelectSeq(repos, LAMBDA r : InList(r.name, include_list(filter)))
    ELSE repos

NotExcluded_UnlessIncluded(r, filter) ==
    \/ ~InList(r.name, exclude_list(filter))
    \/ InList(r.name, include_list(filter))

\* line 75: r['name'] not in exclude_list
NotExcluded(r, filter) == ~InList(r.name, exclude_list(filter))

\* lines 74-75
ApplyExcludeList(repos, filter) ==
    SelectSeq(repos, LAMBDA r : NotExcluded(r, filter))

InitListRepositories ==
    /\ BaseIdle
    /\ pipe = Idle /\ site = Idle /\ shots = Idle /\ finder = Idle
    /\ \E f \in RepositoryFilters :
          lrepos = [pc |-> "gh", filter |-> f, is_list |-> TRUE,
                    listing |-> <<>>, repos |-> <<>>]

notLrepos == <<baseVars, pipe, site, shots, finder>>

\* lines 62-67: gh repo list answers with a list
GhAnswers ==
    /\ lrepos.pc = "gh"
    /\ \E l \in GhListings :
          lrepos' = [lrepos EXCEPT !.pc = "include", !.listing = l, !.repos = l]
    /\ UNCHANGED notLrepos

\* run_gh_cmd, lines 37-40: the output of gh is not JSON
GhAnswersText ==
    /\ lrepos.pc = "gh"
    /\ lrepos' = [lrepos EXCEPT !.pc = "include", !.is_list = FALSE,
                                 !.listing = TextOutput, !.repos = TextOutput]
    /\ UNCHANGED notLrepos

\* run_gh_cmd, lines 41-45: gh fails and the error is raised again
GhFails ==
    /\ lrepos.pc = "gh"
    /\ lrepos' = [lrepos EXCEPT !.pc = "raised"]
    /\ UNCHANGED notLrepos

\* lines 70-72; r['name'] on a key of the dict of line 40 is a TypeError
IncludeStep ==
    /\ lrepos.pc = "include"
    /\ IF ~lrepos.is_list /\ use_include_list(lrepos.filter)
       THEN lrepos' = [lrepos EXCEPT !.pc = "raised"]
       ELSE lrepos' = [lrepos EXCEPT !.pc = "exclude",
                                     !.repos = ApplyIncludeList(@, lrepos.filter)]
    /\ UNCHANGED notLrepos

\* lines 74-77
ExcludeStep ==
    /\ lrepos.pc = "exclude"
    /\ IF ~lrepos.is_list
       THEN lrepos' = [lrepos EXCEPT !.pc = "raised"]
       ELSE lrepos' = [lrepos EXCEPT !.pc = "returned",
                                     !.repos = ApplyExcludeList(@, lrepos.filter)]
    /\ UNCHANGED notLrepos

NextListRepositories == GhAnswers \/ GhAnswersText \/ GhFails \/ IncludeStep \/ ExcludeStep

SpecListRepositories == InitListRepositories /\ [][NextListRepositories]_vars

-----------------------------------------------------------------------------
(* Claims on list_repositories, checked under SpecListRepositories.        *)

ListReturned == lrepos.pc = "returned"

ReturnedNames == {lrepos.repos[i].name : i \in 1..Len(lrepos.repos)}

\* the position of a name in the listing of the data source
ListedAt(name) == CHOOSE i \in 1..Len(lrepos.listing) : lrepos.listing[i].name = name

Included == Range(include_list(lrepos.filter))
Excluded == Range(exclude_list(lrepos.filter))
ListedNames == {lrepos.listing[i].name : i \in 1..Len(lrepos.listing)}

\* C28: no returned repository is named in the exclude list, also when the
\* name is in the include list too; with use_include_list true only names of
\* the include list are returned, with use_include_list false the include
\* list has no effect; the result keeps the order of the listing.
C28_FiltersAndOrder ==
    ListReturned =>
        /\ ReturnedNames \cap Excluded = {}
        /\ ReturnedNames \subseteq ListedNames
        /\ use_include_list(lrepos.filter) => ReturnedNames \subseteq Included
        /\ ~use_include_list(lrepos.filter) => ReturnedNames = ListedNames \ Excluded
        /\ \A i, j \in 1..Len(lrepos.repos) :
              i < j => ListedAt(lrepos.repos[i].name) < ListedAt(lrepos.repos[j].name)

\* a listed name is in both lists and is left out, another one stays
C28_Witness ==
    /\ ListReturned
    /\ use_include_list(lrepos.filter)
    /\ Included \cap Excluded \cap ListedNames # {}
    /\ Len(lrepos.listing) = 2
    /\ ReturnedNames \cap Excluded = {}

\* the include list is ignored when the switch is off, and order is kept
C28_WitnessOrder ==
    /\ ListReturned
    /\ ~use_include_list(lrepos.filter)
    /\ Included # {} /\ ~(Included \subseteq ReturnedNames) /\ ~(ReturnedNames \subseteq Included)
    /\ Len(lrepos.repos) = 2

-----------------------------------------------------------------------------
(* collect_screenshots.py: the capture of the project pages. shots holds    *)
(* the switch of the configuration, the content of                           *)
(* data/processed/repositories.json as the list of records it encodes       *)
(* (readable tells whether json.load accepts the file), the list in memory, *)
(* the loop over the records with a homepage, which are the objects of the  *)
(* list itself, and the captures that succeeded. original is the file as    *)
(* the run found it.                                                        *)

MaxShotRepos == 2    \* records of the processed dataset

S_http == <<"h","t","t","p",":","/","/">>
S_https == <<"h","t","t","p","s",":","/","/">>
S_scheme_sep == <<":","/","/">>

HomepagePool == {<<>>, <<"h","t","t","p",":","/","/","a",".","i","o">>,
                 <<"h","t","t","p","s",":","/","/","b",".","i","o",":","8","0","8","0","/","d","e","m","o">>,
                 <<"f","t","p",":","/","/","c",".","i","o">>,
                 <<"a",".","i","o">>}

\* line 145: homepage.startswith(('http://', 'https://'))
IsWebAddress_AnyHomepage(homepage) == homepage # <<>>

IsWebAddress(homepage) == StartsWith(homepage, S_http) \/ StartsWith(homepage, S_https)

\* urlparse(homepage).netloc: what follows "://" up to the next  /  ?  #
RECURSIVE UpToDelimiter(_)
UpToDelimiter(s) ==
    IF s = <<>> \/ Head(s) \in {"/", "?", "#"} THEN <<>>
    ELSE <<Head(s)>> \o UpToDelimiter(Tail(s))

Netloc(homepage) ==
    LET at == Find(S_scheme_sep, homepage)
    IN  IF at < 0 THEN <<>>
        ELSE UpToDelimiter(SubSeq(homepage, at + Len(S_scheme_sep) + 1, Len(homepage)))

\* lines 149-150 and 158: visuals/screenshots/<name>_<netloc, ':' as '_'>.png
ScreenshotPath(repo) ==
    <<"visuals", "screenshots", repo["name"],
      [k \in 1..Len(Netloc(repo["homepage"])) |->
          IF Netloc(repo["homepage"])[k] = ":" THEN "_" ELSE Netloc(repo["homepage"])[k]]>>

\* a path written by an earlier run
OldScreenshot == <<"visuals", "screenshots", "r0", <<"o","l","d",".","i","o">>>>

\* a processed record: homepage and screenshot are optional fields
ShotRecord(name, homepage, hasHomepage, hasScreenshot) ==
    [k \in ({"name", "summary"} \cup (IF hasHomepage THEN {"homepage"} ELSE {})
                                \cup (IF hasScreenshot THEN {"screenshot"} ELSE {})) |->
        CASE k = "name" -> name
          [] k = "summary" -> <<"s">>
          [] k = "homepage" -> homepage
          [] k = "screenshot" -> OldScreenshot]

ShotNames == [i \in 1..(MaxShotRepos + 1) |-> IF i = 1 THEN "r1" ELSE IF i = 2 THEN "r2" ELSE "r3"]

ShotRecordsAt(i) ==
    {ShotRecord(ShotNames[i], h, TRUE, s) : h \in HomepagePool, s \in BOOLEAN}
    \cup {ShotRecord(ShotNames[i], <<>>, FALSE, FALSE)}

ShotDatasets ==
    UNION {{l \in [1..n -> UNION {ShotRecordsAt(i) : i \in 1..n}] :
              \A i \in 1..n : l[i] \in ShotRecordsAt(i)} : n \in 0..MaxShotRepos}

\* line 135: the indexes of the records whose homepage is present and not ""
WithHomepage(repositories) ==
    SelectSeq([i \in 1..Len(repositories) |-> i],
              LAMBDA i : Get(repositories[i], "homepage", <<>>) # <<>>)

InitScreenshots ==
    /\ BaseIdle
    /\ pipe = Idle /\ site = Idle /\ lrepos = Idle /\ finder = Idle
    /\ \E enabled \in BOOLEAN, readable \in BOOLEAN, data \in ShotDatasets :
          /\ ~readable => data = <<>>
          /\ shots = [pc |-> "start", enabled |-> enabled, readable |-> readable,
                      file |-> data, original |-> data, repositories |-> <<>>,
                      todo |-> <<>>, i |-> 1, succeeded |-> {}, driver |-> "none"]

notShots == <<baseVars, pipe, site, lrepos, finder>>

\* lines 115-117
ShotsDisabled ==
    /\ shots.pc = "start" /\ ~shots.enabled
    /\ shots' = [shots EXCEPT !.pc = "disabled"]
    /\ UNCHANGED notShots

\* lines 124-141: the file is loaded and the records with a homepage selected
ShotsLoad ==
    /\ shots.pc = "start" /\ shots.enabled
    /\ IF ~shots.readable
       THEN shots' = [shots EXCEPT !.pc = "unreadable"]
       ELSE IF WithHomepage(shots.file) = <<>>
       THEN shots' = [shots EXCEPT !.pc = "no_homepage", !.repositories = shots.file]
       ELSE shots' = [shots EXCEPT !.pc = "setup", !.repositories = shots.file,
                                   !.todo = WithHomepage(shots.file)]
    /\ UNCHANGED notShots

\* line 144: setup_webdriver returns the driver or raises
ShotsSetup ==
    /\ shots.pc = "setup"
    /\ \/ shots' = [shots EXCEPT !.pc = "loop", !.driver = "open"]
       \/ shots' = [shots EXCEPT !.pc = "raised"]
    /\ UNCHANGED notShots

\* the record the loop is at
Current == shots.repositories[shots.todo[shots.i]]

\* lines 149-151: the homepage is not a web address
ShotsSkip ==
    /\ shots.pc = "loop" /\ shots.i <= Len(shots.todo)
    /\ ~IsWebAddress(Current["homepage"])
    /\ shots' = [shots EXCEPT !.i = @ + 1]
    /\ UNCHANGED notShots

\* dict item assignment
WithItem(d, key, value) ==
    [k \in DOMAIN d \cup {key} |-> IF k = key THEN value ELSE d[k]]

\* lines 153-162 and take_screenshot: the page is captured, or not
ShotsTake ==
    /\ shots.pc = "loop" /\ shots.i <= Len(shots.todo)
    /\ IsWebAddress(Current["homepage"])
    /\ \E success \in BOOLEAN :
          shots' = [shots EXCEPT
              !.i = @ + 1,
              !.succeeded = IF success THEN @ \cup {shots.todo[shots.i]} ELSE @,
              !.repositories =
                  IF success
                  THEN [@ EXCEPT ![shots.todo[shots.i]] =
                            WithItem(Current, "screenshot", ScreenshotPath(Current))]
                  ELSE @]
    /\ UNCHANGED notShots

\* lines 146-162, 166-168: an exception other than those take_screenshot
\* catches leaves the loop; the driver is closed and the exception goes on
ShotsInterrupted ==
    /\ shots.pc = "loop" /\ shots.i <= Len(shots.todo)
    /\ shots' = [shots EXCEPT !.pc = "raised", !.driver = "quit"]
    /\ UNCHANGED notShots

\* lines 163-168: the list in memory is written to repositories.json
ShotsSave ==
    /\ shots.pc = "loop" /\ shots.i > Len(shots.todo)
    /\ shots' = [shots EXCEPT !.pc = "saved", !.file = shots.repositories, !.driver = "quit"]
    /\ UNCHANGED notShots

NextScreenshots ==
    \/ ShotsDisabled \/ ShotsLoad \/ ShotsSetup \/ ShotsSkip \/ ShotsTake
    \/ ShotsInterrupted \/ ShotsSave

SpecScreenshots == InitScreenshots /\ [][NextScreenshots]_vars

-----------------------------------------------------------------------------
(* Claims on collect_screenshots, checked under SpecScreenshots.           *)

\* C26: a run of screenshot collection only reads the processed dataset: the
\* content of repositories.json is at every moment what the run found.
C26_DatasetIsOnlyRead == shots.file = shots.original

\* the run ended and the dataset file now records a screenshot
C26_Observed ==
    /\ shots.pc = "saved"
    /\ \E i \in 1..Len(shots.file) :
          /\ "screenshot" \notin DOMAIN shots.original[i]
          /\ "screenshot" \in DOMAIN shots.file[i]

OtherFields(record) == DOMAIN record \ {"screenshot"}

NoScreenshot == <<"none">>

ScreenshotOf(record) == Get(record, "screenshot", NoScreenshot)

\* the record's homepage begins with http:// or https://
HasWebHomepage(record) ==
    LET homepage == Get(record, "homepage", <<>>)
    IN  \E scheme \in {S_http, S_https} :
            /\ Len(homepage) >= Len(scheme)
            /\ SubSeq(homepage, 1, Len(scheme)) = scheme

\* C29: the dataset file keeps its records, their order and every field but
\* 'screenshot'; 'screenshot' changes only on a record whose homepage starts
\* with http:// or https:// and whose capture succeeded; the file is as the
\* run found it when screenshots are disabled, when no record has a
\* homepage and when the capture loop is left by an error.
C29_OnlyScreenshotChanges ==
    /\ Len(shots.file) = Len(shots.original)
    /\ \A i \in 1..Len(shots.file) :
          /\ OtherFields(shots.file[i]) = OtherFields(shots.original[i])
          /\ \A k \in OtherFields(shots.file[i]) : shots.file[i][k] = shots.original[i][k]
          /\ ScreenshotOf(shots.file[i]) # ScreenshotOf(shots.original[i]) =>
                /\ HasWebHomepage(shots.original[i])
                /\ i \in shots.succeeded
                /\ ScreenshotOf(shots.file[i]) = ScreenshotPath(shots.original[i])
    /\ shots.pc \in {"disabled", "unreadable", "no_homepage", "raised"} =>
          shots.file = shots.original

\* one capture succeeded, one record has a homepage that is no web address,
\* and the file was written
C29_Witness ==
    /\ shots.pc = "saved"
    /\ Len(shots.file) = 2
    /\ shots.succeeded # {}
    /\ \E i \in 1..2 : /\ Get(shots.file[i], "homepage", <<>>) # <<>>
                       /\ ~HasWebHomepage(shots.file[i])
                       /\ shots.file[i] = shots.original[i]
    /\ \E i \in 1..2 : ScreenshotOf(shots.file[i]) # ScreenshotOf(shots.original[i])

-----------------------------------------------------------------------------
(* utils/github.py, find_config_files: the root of the repository and the  *)
(* directories .github, config and configs are listed. finder holds the    *)
(* answer of the contents API for the root, the position in it, the list   *)
(* of entries found, and that list as it was at each failed listing of a   *)
(* directory; listed tells whether the root could be listed. An item is    *)
(* its type, its name and its path from the root.                          *)

MaxRootItems == 2    \* items of the root listing

S_ext_toml == <<".","t","o","m","l">>
S_ext_yaml == <<".","y","a","m","l">>
S_ext_yml == <<".","y","m","l">>
S_ext_json == <<".","j","s","o","n">>
S_dir_github == <<".","g","i","t","h","u","b">>
S_dir_config == <<"c","o","n","f","i","g">>
S_dir_configs == <<"c","o","n","f","i","g","s">>
S_dir_src == <<"s","r","c">>
S_dir_workflows == <<"w","o","r","k","f","l","o","w","s">>

\* line 181
DefaultExtensions == <<S_ext_toml, S_ext_yaml, S_ext_yml, S_ext_json>>

\* os.path.splitext(name)[1]: from the last dot, unless only dots precede it
SplitExt(name) ==
    IF \A i \in 1..Len(name) : name[i] # "." THEN <<>>
    ELSE LET last == CHOOSE i \in 1..Len(name) :
                        name[i] = "." /\ \A j \in (i + 1)..Len(name) : name[j] # "."
         IN  IF \A j \in 1..(last - 1) : name[j] = "." THEN <<>>
             ELSE SubSeq(name, last, Len(name))

\* lines 190-192 and 198-200
HasConfigExtension(item) == InList(SplitExt(item.name), DefaultExtensions)

IsConfigDir_AnyDir(item) == item.type = "dir"

\* line 194
IsConfigDir(item) ==
    item.type = "dir" /\ InList(item.name, <<S_dir_github, S_dir_config, S_dir_configs>>)

\* the files of a listing that have one of the extensions, in listing order
ConfigEntries(items) ==
    SelectSeq(items, LAMBDA item : item.type = "file" /\ HasConfigExtension(item))

Item(type, path) == [type |-> type, name |-> path[Len(path)], path |-> path]

\* what the data source holds
RootPool ==
    {Item("file", <<<<"p","a","c","k","a","g","e",".","j","s","o","n">>>>), Item("file", <<<<".","y","a","m","l">>>>),
     Item("file", <<<<"n","o","t","e","s",".","Y","M","L">>>>), Item("file", <<<<"b","u","i","l","d",".","y","a","m","l",".","b","a","k">>>>),
     Item("symlink", <<<<"l","i","n","k",".","j","s","o","n">>>>),
     Item("dir", <<S_dir_github>>), Item("dir", <<S_dir_config>>),
     Item("dir", <<S_dir_configs>>), Item("dir", <<S_dir_src>>)}

DirContents(dir) ==
    CASE dir.name = S_dir_github ->
            <<Item("file", <<S_dir_github, <<"d","e","p","e","n","d","a","b","o","t",".","y","m","l">>>>),
              Item("dir", <<S_dir_github, S_dir_workflows>>),
              Item("file", <<S_dir_github, <<"C","O","D","E","O","W","N","E","R","S">>>>)>>
      [] dir.name = S_dir_config ->
            <<Item("file", <<S_dir_config, <<"s","e","t","t","i","n","g","s",".","t","o","m","l">>>>),
              Item("file", <<S_dir_config, <<"r","e","a","d","m","e",".","t","x","t">>>>)>>
      [] dir.name = S_dir_configs ->
            <<Item("file", <<S_dir_configs, <<"a",".","j","s","o","n">>>>)>>
      [] dir.name = S_dir_workflows ->
            <<Item("file", <<S_dir_github, S_dir_workflows, <<"c","i",".","y","m","l">>>>)>>
      [] OTHER ->
            <<Item("file", <<dir.name, <<"t","s","c","o","n","f","i","g",".","j","s","o","n">>>>)>>

RootListings ==
    UNION {{l \in [1..n -> RootPool] : \A i, j \in 1..n : l[i] = l[j] => i = j} :
             n \in 0..MaxRootItems}

InitFindConfigFiles ==
    /\ BaseIdle
    /\ pipe = Idle /\ site = Idle /\ shots = Idle /\ lrepos = Idle
    /\ finder = [pc |-> "contents", listed |-> FALSE, result |-> <<>>, i |-> 1, config_files |-> <<>>,
                 at_failure |-> {}, returned |-> <<>>]

notFinder == <<baseVars, pipe, site, shots, lrepos>>

\* lines 186-188: the root is listed
FinderListRoot ==
    /\ finder.pc = "contents"
    /\ \E l \in RootListings : finder' = [finder EXCEPT !.pc = "items", !.listed = TRUE, !.result = l]
    /\ UNCHANGED notFinder

\* lines 186, 208-210: the listing of the root fails
FinderRootFails ==
    /\ finder.pc = "contents"
    /\ finder' = [finder EXCEPT !.pc = "returned", !.returned = <<>>]
    /\ UNCHANGED notFinder

RootItem == finder.result[finder.i]

\* lines 189-192: a root item that is a file
FinderFile ==
    /\ finder.pc = "items" /\ finder.i <= Len(finder.result)
    /\ RootItem.type = "file"
    /\ finder' = [finder EXCEPT !.i = @ + 1,
                                !.config_files = @ \o ConfigEntries(<<RootItem>>)]
    /\ UNCHANGED notFinder

\* lines 194-202: one of the three directories is listed; the loop over its
\* items ends, or an exception ends it after k items
FinderDir ==
    /\ finder.pc = "items" /\ finder.i <= Len(finder.result)
    /\ IsConfigDir(RootItem)
    /\ \E k \in 0..Len(DirContents(RootItem)) :
          finder' = [finder EXCEPT
              !.i = @ + 1,
              !.config_files = @ \o ConfigEntries(SubSeq(DirContents(RootItem), 1, k))]
    /\ UNCHANGED notFinder

\* lines 196, 203-204: the listing of the directory fails
FinderDirFails ==
    /\ finder.pc = "items" /\ finder.i <= Len(finder.result)
    /\ IsConfigDir(RootItem)
    /\ finder' = [finder EXCEPT !.i = @ + 1,
                                !.at_failure = @ \cup {finder.config_files}]
    /\ UNCHANGED notFinder

\* lines 189-194: neither a file nor one of the three directories
FinderOther ==
    /\ finder.pc = "items" /\ finder.i <= Len(finder.result)
    /\ RootItem.type # "file" /\ ~IsConfigDir(RootItem)
    /\ finder' = [finder EXCEPT !.i = @ + 1]
    /\ UNCHANGED notFinder

\* line 206
FinderReturn ==
    /\ finder.pc = "items" /\ finder.i > Len(finder.result)
    /\ finder' = [finder EXCEPT !.pc = "returned", !.returned = finder.config_files]
    /\ UNCHANGED notFinder

NextFindConfigFiles ==
    \/ FinderListRoot \/ FinderRootFails \/ FinderFile \/ FinderDir
    \/ FinderDirFails \/ FinderOther \/ FinderReturn

SpecFindConfigFiles == InitFindConfigFiles /\ [][NextFindConfigFiles]_vars

-----------------------------------------------------------------------------
(* Claims on find_config_files, checked under SpecFindConfigFiles.         *)

\* name ends with ext and has something other than dots before it
EndsWithExtension(name, ext) ==
    /\ Len(name) > Len(ext)
    /\ SubSeq(name, Len(name) - Len(ext) + 1, Len(name)) = ext
    /\ \E j \in 1..(Len(name) - Len(ext)) : name[j] # "."

ConfigDirNames == {S_dir_github, S_dir_config, S_dir_configs}

IsPrefixOf(s, t) == Len(s) <= Len(t) /\ SubSeq(t, 1, Len(s)) = s

\* C30: every entry found is a file with one of the extensions .toml, .yaml,
\* .yml, .json, at the root or directly inside a root directory named
\* .github, config or configs, never deeper; the entries found before a
\* directory could not be listed stay in the list.
C30_OnlyShallowConfigFiles ==
    /\ \A n \in 1..Len(finder.config_files) :
          LET entry == finder.config_files[n]
          IN  /\ entry.type = "file"
              /\ \E ext \in {S_ext_toml, S_ext_yaml, S_ext_yml, S_ext_json} :
                    EndsWithExtension(entry.name, ext)
              /\ \/ Len(entry.path) = 1
                 \/ Len(entry.path) = 2 /\ entry.path[1] \in ConfigDirNames
    /\ finder.pc = "returned" =>
          /\ finder.returned = finder.config_files
          /\ \A found \in finder.at_failure : IsPrefixOf(found, finder.returned)

\* .github, which holds workflows/ci.yml, was listed, the listing of another
\* directory failed after an entry was found, and the call returned
C30_Witness ==
    /\ finder.pc = "returned"
    /\ \E found \in finder.at_failure : found # <<>>
    /\ \E n \in 1..Len(finder.returned) : finder.returned[n].path[1] = S_dir_github
    /\ \E i \in 1..Len(finder.result) : finder.result[i].name = S_dir_github
====
